---- MODULE Spec2Model ----
(***************************************************************************)
(* MPVShadow, shadow_analyzer/src/main.rs: the mpv JSON-IPC client with    *)
(* its read loop (run_analyzer), the per-trigger clip / mic / analysis     *)
(* orchestration, the retention cleanup of the output directory and the    *)
(* single-slot mailbox towards the window's event loop (main).             *)
(*                                                                         *)
(* Times are integers in milliseconds.  Option<T> is a sequence of length  *)
(* at most one: <<>> is None and <<x>> is Some(x).                         *)
(***************************************************************************)
EXTENDS Integers, Sequences, FiniteSets, TLC

\* ------------------------------------------------------------------ bounds
\* Trigger lines (client-message cut_current_sub) mpv emits in one run.
MaxTriggers == 1
\* Lines the inbound side of the pipe buffers before mpv blocks.
MaxInbox == 1

\* Unsolicited lines other than triggers (property changes, other events,
\* unparseable lines) mpv writes in one run.
MaxEvents == 2

\* ------------------------------------------------------- program constants
PadMs == 100
WatchLeadMs == 20
KeepCount == 5
ReqSubStart == 2001
ReqSubEnd == 2002
ReqDuration == 4
ReqPath == 5
ReqTrackList == 6
SlotTimePos == 101
SlotSubText == 201

None == <<>>
Some(x) == <<x>>
IsSome(o) == o # <<>>
Unwrap(o) == o[1]
UnwrapOr(o, d) == IF o = <<>> THEN d ELSE o[1]

Max(a, b) == IF a >= b THEN a ELSE b
Min(a, b) == IF a <= b THEN a ELSE b

\* ------------------------------------------------------------ wire format
\* One inbound line.  json is FALSE for a line serde_json cannot parse; the
\* other fields are the keys the client looks at, None when the key is absent
\* or has another type (as_u64 / as_str / as_f64 yield None).
Line(json, request_id, event, name, num, str, arg0) ==
    [json |-> json, request_id |-> request_id, event |-> event, name |-> name,
     data_f64 |-> num, data_str |-> str, arg0 |-> arg0]

Malformed == Line(FALSE, None, None, None, None, None, None)
Reply(id, num, str) == Line(TRUE, Some(id), None, None, num, str, None)
PropertyChange(name, num, str) ==
    Line(TRUE, None, Some("property-change"), Some(name), num, str, None)
\* A time-pos property-change; after_seeks is history, not on the wire: the
\* number of seeks mpv had processed when it wrote the line.
TimePosChange(p, after_seeks) ==
    [json |-> TRUE, request_id |-> None, event |-> Some("property-change"),
     name |-> Some("time-pos"), data_f64 |-> Some(p), data_str |-> None, arg0 |-> None,
     after_seeks |-> after_seeks]
ClientMessage(arg0) == Line(TRUE, None, Some("client-message"), None, None, None, Some(arg0))

\* One outbound command: {request_id?, command: [verb, name, value]}.
Cmd(request_id, verb, name, num, flag) ==
    [request_id |-> request_id, verb |-> verb, name |-> name, num |-> num, flag |-> flag]

GetProperty(id, name) == Cmd(Some(id), "get_property", name, None, None)
SetPause(b) == Cmd(None, "set_property", "pause", None, Some(b))
SetTimePos(t) == Cmd(None, "set_property", "time-pos", Some(t), None)
ObserveProperty(slot, name) == Cmd(None, "observe_property", name, Some(slot), None)
UnobserveProperty(slot) == Cmd(None, "unobserve_property", "", Some(slot), None)
ShowText(msg) == Cmd(None, "show-text", msg, None, None)

\* What mpv may answer or report (the environment's values).
SubStartData == {Some(1000)}
SubEndData == {None, Some(1100)}
DurationData == {None, Some(900)}
PathData == {None, Some("movie")}
TrackData == {Some(1)}
Positions == {900, 1190}
SubTexts == {None, Some("hello")}

\* ------------------------------------------------------------------ state
VARIABLES
    \* the pipe and mpv (the environment)
    inbox,              \* lines mpv has written and the client has not read yet
    outq,               \* commands the client has written and mpv has not processed yet
    eof,                \* mpv has closed the pipe
    mpv_obs,            \* property slots registered with mpv
    mpv_msgs,           \* client-message events enabled in mpv (request_event)
    mpv_seeks,          \* history: set_property time-pos commands mpv has processed
    n_triggers,         \* trigger lines emitted so far
    n_events,           \* other unsolicited lines emitted so far
    \* run_analyzer
    pc,                 \* where the analyzer thread stands
    watch_until,        \* Option<f64>
    observing_timepos,  \* bool
    current_line,       \* Option<(text, start, end)>
    loc,                \* the locals of the handler in progress
    n_handled,          \* triggers whose handler was entered
    issued,             \* history: the request ids sent on this connection so far
    \* shared with the window thread
    shared,             \* Arc<Mutex<Option<UiPayload>>>
    devices_shared,     \* Arc<Mutex<Option<Vec<MicDeviceInfo>>>>
    mic_selected,       \* Arc<Mutex<Option<String>>>
    wakes,              \* UserEvent(())s queued on the event loop, oldest first
    dev_pc,             \* the device scan thread of main
    delivered,          \* snapshots handed to the webview, oldest first
    \* background work of the cycles
    mics,               \* the mic recorder threads, in spawn order
    files,              \* the .wav files of shadow_out, oldest modification first
    \* history
    pubCount,           \* payloads stored into shared so far
    overwritten,        \* payloads replaced in shared before the event loop took them
    unconsumed,         \* payloads stored since the event loop last handled a UserEvent
    passes,             \* the retention passes run: directory before, exclude list, directory after
    spawn_log,          \* processes spawned and seeks sent, with the window they were for
    \* the decoders (wav.rs, pitch.rs), which run on no thread of the above
    calc                \* the call in progress: its arguments and, once it returned, its result

mpvVars == <<inbox, outq, eof, mpv_obs, mpv_msgs, mpv_seeks, n_triggers, n_events>>
anVars == <<pc, watch_until, observing_timepos, current_line, loc, n_handled, issued>>
uiVars == <<shared, devices_shared, mic_selected, wakes, dev_pc, delivered>>
bgVars == <<mics, files>>
histVars == <<pubCount, overwritten, unconsumed, passes, spawn_log>>
vars == <<mpvVars, anVars, uiVars, bgVars, histVars, calc>>

\* The locals of one pass of the loop body, before anything is assigned.
LocInit ==
    [text_val |-> None, sub_start |-> None, sub_end |-> None,
     duration |-> None, path |-> None, track_list |-> None,
     text |-> None, s |-> 0, e |-> 0, dur |-> 0, ff_index |-> None,
     mic_device_sel |-> None, enumerated |-> None, chosen_dev |-> None,
     mic_started |-> FALSE, pcm |-> "none", pcm_msg |-> None,
     pubno |-> 0,
     skipped |-> FALSE]

\* ---------------------------------------------------------------- files
\* A file of shadow_out: latest.wav, latest_mic.wav, <base>_<s>_<e>.wav or
\* <base>_<s>_<e>_mic.wav.
LatestPath == [kind |-> "latest", s |-> 0, e |-> 0]
LatestMicPath == [kind |-> "latest_mic", s |-> 0, e |-> 0]
OutPath(s, e) == [kind |-> "clip", s |-> s, e |-> e]
MicOutPath(s, e) == [kind |-> "mic", s |-> s, e |-> e]

\* What a run may find in shadow_out, left by earlier takes (oldest
\* modification first).  After three takes with a microphone: every take
\* wrote its clip, then latest_mic.wav, then the copy of it.  After one take
\* with a microphone and four without: latest_mic.wav has not been written
\* since the first take.
PriorDirs ==
    { <<LatestPath, OutPath(1, 2), MicOutPath(1, 2), OutPath(3, 4), MicOutPath(3, 4),
        OutPath(5, 6), LatestMicPath, MicOutPath(5, 6)>>,
      <<LatestPath, LatestMicPath, MicOutPath(1, 2), OutPath(3, 4), OutPath(5, 6),
        OutPath(7, 8), OutPath(9, 10)>> }

\* No decoder call in progress.
NoCall == [op |-> "none"]

\* ------------------------------------------------------------------- Init
\* The state when run_analyzer enters its loop: connected, the two
\* subscriptions written, nothing read, no device scanned yet; dir is what
\* shadow_out holds.
Connected(dir) ==
    /\ inbox = <<>>
    /\ outq = << Cmd(None, "request_event", "client-message", None, Some(TRUE)),
                 ObserveProperty(SlotSubText, "sub-text") >>
    /\ eof = FALSE
    /\ mpv_obs = {}
    /\ mpv_msgs = FALSE
    /\ mpv_seeks = 0
    /\ n_triggers = 0
    /\ n_events = 0
    /\ pc = "read"
    /\ watch_until = None
    /\ observing_timepos = FALSE
    /\ current_line = None
    /\ loc = LocInit
    /\ n_handled = 0
    /\ issued = {}
    /\ shared = None
    /\ devices_shared = None
    /\ mic_selected = None
    /\ wakes = <<>>
    /\ dev_pc = "scan"
    /\ delivered = <<>>
    /\ mics = <<>>
    /\ files = dir
    /\ pubCount = 0
    /\ overwritten = {}
    /\ unconsumed = <<>>
    /\ passes = {}
    /\ spawn_log = {}

InitState(dir) == Connected(dir) /\ calc = NoCall

\* A first run: shadow_out is empty.
Init == InitState(<<>>)

\* A later run: shadow_out holds earlier takes.
InitRetention == \E dir \in PriorDirs : InitState(dir)

\* -------------------------------------------------------- mpv (environment)
\* The data mpv may return for a get_property.
PropertyData(name) ==
    CASE name = "sub-start" -> { [num |-> d, str |-> None] : d \in SubStartData }
      [] name = "sub-end" -> { [num |-> d, str |-> None] : d \in SubEndData }
      [] name = "duration" -> { [num |-> d, str |-> None] : d \in DurationData }
      [] name = "path" -> { [num |-> None, str |-> d] : d \in PathData }
      [] name = "track-list" -> { [num |-> d, str |-> None] : d \in TrackData }
      [] OTHER -> { [num |-> None, str |-> None] }

\* mpv answers every command with one line; a command sent without a
\* request_id is answered with request_id 0.
MpvReplies(c) ==
    IF c.verb = "get_property"
    THEN { Reply(Unwrap(c.request_id), d.num, d.str) : d \in PropertyData(c.name) }
    ELSE { Reply(0, None, None) }

MpvObsAfter(c) ==
    CASE c.verb = "observe_property" -> mpv_obs \cup {Unwrap(c.num)}
      [] c.verb = "unobserve_property" -> mpv_obs \ {Unwrap(c.num)}
      [] OTHER -> mpv_obs

MpvProcess ==
    /\ ~eof
    /\ outq # <<>>
    /\ Len(inbox) < MaxInbox
    /\ \E r \in MpvReplies(Head(outq)) : inbox' = Append(inbox, r)
    /\ outq' = Tail(outq)
    /\ mpv_obs' = MpvObsAfter(Head(outq))
    /\ mpv_msgs' = (mpv_msgs \/ Head(outq).verb = "request_event")
    /\ mpv_seeks' = IF Head(outq).verb = "set_property" /\ Head(outq).name = "time-pos"
                    THEN mpv_seeks + 1 ELSE mpv_seeks
    /\ UNCHANGED <<eof, n_triggers, n_events>>
    /\ UNCHANGED <<anVars, uiVars, bgVars, histVars>>
    /\ UNCHANGED calc

\* The user's key binding: script-message cut_current_sub.
MpvTrigger ==
    /\ ~eof
    /\ mpv_msgs
    /\ n_triggers < MaxTriggers
    /\ Len(inbox) < MaxInbox
    /\ inbox' = Append(inbox, ClientMessage("cut_current_sub"))
    /\ n_triggers' = n_triggers + 1
    /\ UNCHANGED <<outq, eof, mpv_obs, mpv_msgs, mpv_seeks, n_events>>
    /\ UNCHANGED <<anVars, uiVars, bgVars, histVars>>
    /\ UNCHANGED calc

\* The visible subtitle changes (or the initial value on registration).
MpvSubText ==
    /\ ~eof
    /\ SlotSubText \in mpv_obs
    /\ n_events < MaxEvents
    /\ Len(inbox) < MaxInbox
    /\ \E t \in SubTexts : inbox' = Append(inbox, PropertyChange("sub-text", None, t))
    /\ UNCHANGED <<outq, eof, mpv_obs, mpv_msgs, mpv_seeks, n_triggers>>
    /\ n_events' = n_events + 1
    /\ UNCHANGED <<anVars, uiVars, bgVars, histVars>>
    /\ UNCHANGED calc

\* Playback advances (or the initial value on registration).
MpvTimePos ==
    /\ ~eof
    /\ SlotTimePos \in mpv_obs
    /\ n_events < MaxEvents
    /\ Len(inbox) < MaxInbox
    /\ \E p \in Positions : inbox' = Append(inbox, TimePosChange(p, mpv_seeks))
    /\ UNCHANGED <<outq, eof, mpv_obs, mpv_msgs, mpv_seeks, n_triggers>>
    /\ n_events' = n_events + 1
    /\ UNCHANGED <<anVars, uiVars, bgVars, histVars>>
    /\ UNCHANGED calc

\* Anything else mpv writes: an event of another kind, or a line that is
\* not JSON.
MpvOther ==
    /\ ~eof
    /\ n_events < MaxEvents
    /\ Len(inbox) < MaxInbox
    /\ \E l \in {Malformed, Line(TRUE, None, Some("seek"), None, None, None, None)} :
         inbox' = Append(inbox, l)
    /\ UNCHANGED <<outq, eof, mpv_obs, mpv_msgs, mpv_seeks, n_triggers>>
    /\ n_events' = n_events + 1
    /\ UNCHANGED <<anVars, uiVars, bgVars, histVars>>
    /\ UNCHANGED calc

\* mpv exits: the client reads what is buffered, then end-of-stream.
MpvClose ==
    /\ ~eof
    /\ eof' = TRUE
    /\ UNCHANGED <<inbox, outq, mpv_obs, mpv_msgs, mpv_seeks, n_triggers, n_events>>
    /\ UNCHANGED <<anVars, uiVars, bgVars, histVars>>
    /\ UNCHANGED calc

\* ------------------------------------------------------------ run_analyzer
Send(c) == outq' = Append(outq, c)

\* A body that takes any position for the end of the window while armed.
DispatchAnyPosition(v) ==
    IF ~v.json THEN "skip"
    ELSE IF v.event = Some("property-change") /\ v.name = Some("time-pos")
    THEN IF IsSome(watch_until) /\ IsSome(v.data_f64) THEN "timepos" ELSE "skip"
    ELSE IF v.event = Some("property-change") /\ v.name = Some("sub-text")
    THEN IF IsSome(v.data_str) THEN "subtext" ELSE "skip"
    ELSE IF v.event = Some("client-message") /\ v.arg0 = Some("cut_current_sub")
    THEN "trigger" ELSE "skip"

\* What the loop body does with a parsed line (the branches of the body).
Dispatch(v) ==
    IF ~v.json THEN "skip"
    ELSE IF v.event = Some("property-change") /\ v.name = Some("time-pos")
    THEN IF IsSome(watch_until) /\ IsSome(v.data_f64) /\ Unwrap(v.data_f64) >= Unwrap(watch_until)
         THEN "timepos" ELSE "skip"
    ELSE IF v.event = Some("property-change") /\ v.name = Some("sub-text")
    THEN IF IsSome(v.data_str) THEN "subtext" ELSE "skip"
    ELSE IF v.event = Some("client-message") /\ v.arg0 = Some("cut_current_sub")
    THEN "trigger" ELSE "skip"

\* A loop that reads again after read_line returned 0.
ReadEofKeepsReading ==
    /\ pc = "read"
    /\ inbox = <<>>
    /\ eof
    /\ UNCHANGED vars

\* read_line returned 0: break.
ReadEof ==
    /\ pc = "read"
    /\ inbox = <<>>
    /\ eof
    /\ pc' = "exit"
    /\ UNCHANGED <<watch_until, observing_timepos, current_line, loc, n_handled>>
    /\ UNCHANGED <<mpvVars, uiVars, bgVars, histVars>>
    /\ UNCHANGED calc
    /\ UNCHANGED issued

\* A line the body does nothing with: unparseable, a reply, an event of
\* another kind, a position below the threshold or with no threshold armed.
ReadSkip ==
    /\ pc = "read"
    /\ inbox # <<>>
    /\ Dispatch(Head(inbox)) = "skip"
    /\ inbox' = Tail(inbox)
    /\ UNCHANGED <<outq, eof, mpv_obs, mpv_msgs, mpv_seeks, n_triggers, n_events>>
    /\ UNCHANGED <<anVars, uiVars, bgVars, histVars>>
    /\ UNCHANGED calc

\* time-pos at or past the threshold: pause, unobserve, clear the threshold.
\* A watcher that pauses and disarms but keeps the observation.
ReadTimePosKeepsObserving ==
    /\ pc = "read"
    /\ inbox # <<>>
    /\ Dispatch(Head(inbox)) = "timepos"
    /\ inbox' = Tail(inbox)
    /\ outq' = Append(outq, SetPause(TRUE))
    /\ watch_until' = None
    /\ UNCHANGED <<pc, observing_timepos, current_line, loc, n_handled>>
    /\ UNCHANGED <<eof, mpv_obs, mpv_msgs, mpv_seeks, n_triggers, n_events>>
    /\ UNCHANGED <<uiVars, bgVars, histVars>>
    /\ UNCHANGED calc
    /\ UNCHANGED issued

\* time-pos at or past the threshold: pause, unobserve, disarm.
ReadTimePos ==
    /\ pc = "read"
    /\ inbox # <<>>
    /\ Dispatch(Head(inbox)) = "timepos"
    /\ inbox' = Tail(inbox)
    /\ outq' = IF observing_timepos
               THEN outq \o <<SetPause(TRUE), UnobserveProperty(SlotTimePos)>>
               ELSE Append(outq, SetPause(TRUE))
    /\ observing_timepos' = FALSE
    /\ watch_until' = None
    /\ UNCHANGED <<pc, current_line, loc, n_handled>>
    /\ UNCHANGED <<eof, mpv_obs, mpv_msgs, mpv_seeks, n_triggers, n_events>>
    /\ UNCHANGED <<uiVars, bgVars, histVars>>
    /\ UNCHANGED calc
    /\ UNCHANGED issued

\* sub-text with a string: ask for sub-start (get_property, the send half).
ReadSubText ==
    /\ pc = "read"
    /\ inbox # <<>>
    /\ Dispatch(Head(inbox)) = "subtext"
    /\ inbox' = Tail(inbox)
    /\ loc' = [loc EXCEPT !.text_val = Head(inbox).data_str]
    /\ Send(GetProperty(ReqSubStart, "sub-start"))
    /\ pc' = "get_sub_start"
    /\ UNCHANGED <<watch_until, observing_timepos, current_line, n_handled>>
    /\ UNCHANGED <<eof, mpv_obs, mpv_msgs, mpv_seeks, n_triggers, n_events>>
    /\ UNCHANGED <<uiVars, bgVars, histVars>>
    /\ UNCHANGED calc
    /\ issued' = issued \cup {ReqSubStart}

\* The trigger: ask for duration.
ReadTrigger ==
    /\ pc = "read"
    /\ inbox # <<>>
    /\ Dispatch(Head(inbox)) = "trigger"
    /\ inbox' = Tail(inbox)
    /\ n_handled' = n_handled + 1
    /\ Send(GetProperty(ReqDuration, "duration"))
    /\ pc' = "get_duration"
    /\ UNCHANGED <<watch_until, observing_timepos, current_line, loc>>
    /\ UNCHANGED <<eof, mpv_obs, mpv_msgs, mpv_seeks, n_triggers, n_events>>
    /\ UNCHANGED <<uiVars, bgVars, histVars>>
    /\ UNCHANGED calc
    /\ issued' = issued \cup {ReqDuration}

\* --- get_property / read_reply_with_id
ReqPcs == {"get_sub_start", "get_sub_end", "get_duration", "get_path", "get_track_list"}

\* A reader that waits for the sub-start id whatever it asked for.
RequestIdShared(p) == ReqSubStart

\* The request_id each call site passes to read_reply_with_id.
RequestId(p) ==
    CASE p = "get_sub_start" -> ReqSubStart
      [] p = "get_sub_end" -> ReqSubEnd
      [] p = "get_duration" -> ReqDuration
      [] p = "get_path" -> ReqPath
      [] p = "get_track_list" -> ReqTrackList

\* A reader that returns the first line that parses, whatever its id.
ReplyMatchesAnyLine(v, request_id) == v.json

\* The test read_reply_with_id applies to each line it reads.
ReplyMatches(v, request_id) == v.json /\ v.request_id = Some(request_id)

\* v.get("data").and_then(as_f64) of an Option<Value>
DataF64(res) == IF res = None THEN None ELSE Unwrap(res).data_f64
DataStr(res) == IF res = None THEN None ELSE Unwrap(res).data_str

\* The code that follows each get_property, given its result (.ok()).
AfterReply(res) ==
    CASE pc = "get_sub_start" ->
           /\ loc' = [loc EXCEPT !.sub_start = res, !.skipped = FALSE]
           /\ Send(GetProperty(ReqSubEnd, "sub-end"))
           /\ issued' = issued \cup {ReqSubEnd}
           /\ pc' = "get_sub_end"
           /\ UNCHANGED current_line
      [] pc = "get_sub_end" ->
           LET s_now == UnwrapOr(DataF64(loc.sub_start), 0)
               e_now == UnwrapOr(DataF64(res), 0)
           IN  /\ current_line' = IF e_now > s_now
                                  THEN Some([text |-> loc.text_val, s |-> s_now, e |-> e_now])
                                  ELSE current_line
               /\ loc' = LocInit
               /\ pc' = "read"
               /\ UNCHANGED <<outq, issued>>
      [] pc = "get_duration" ->
           /\ loc' = [loc EXCEPT !.duration = res, !.skipped = FALSE]
           /\ Send(GetProperty(ReqPath, "path"))
           /\ issued' = issued \cup {ReqPath}
           /\ pc' = "get_path"
           /\ UNCHANGED current_line
      [] pc = "get_path" ->
           /\ loc' = [loc EXCEPT !.path = res, !.skipped = FALSE]
           /\ Send(GetProperty(ReqTrackList, "track-list"))
           /\ issued' = issued \cup {ReqTrackList}
           /\ pc' = "get_track_list"
           /\ UNCHANGED current_line
      [] pc = "get_track_list" ->
           /\ loc' = [loc EXCEPT !.track_list = res]
           /\ pc' = "cut"
           /\ UNCHANGED <<outq, current_line, issued>>

\* A line that is not the awaited reply: keep looping.
ReplySkip ==
    /\ pc \in ReqPcs
    /\ inbox # <<>>
    /\ ~ReplyMatches(Head(inbox), RequestId(pc))
    /\ inbox' = Tail(inbox)
    /\ loc' = [loc EXCEPT !.skipped = TRUE]
    /\ UNCHANGED <<pc, watch_until, observing_timepos, current_line, n_handled>>
    /\ UNCHANGED <<outq, eof, mpv_obs, mpv_msgs, mpv_seeks, n_triggers, n_events>>
    /\ UNCHANGED <<uiVars, bgVars, histVars>>
    /\ UNCHANGED calc
    /\ UNCHANGED issued

\* The awaited reply: return it.
ReplyReturn ==
    /\ pc \in ReqPcs
    /\ inbox # <<>>
    /\ ReplyMatches(Head(inbox), RequestId(pc))
    /\ inbox' = Tail(inbox)
    /\ AfterReply(Some(Head(inbox)))
    /\ UNCHANGED <<watch_until, observing_timepos, n_handled>>
    /\ UNCHANGED <<eof, mpv_obs, mpv_msgs, mpv_seeks, n_triggers, n_events>>
    /\ UNCHANGED <<uiVars, bgVars, histVars>>
    /\ UNCHANGED calc

\* End-of-stream inside a request: Err, which .ok() turns into None.
ReplyEof ==
    /\ pc \in ReqPcs
    /\ inbox = <<>>
    /\ eof
    /\ AfterReply(None)
    /\ UNCHANGED <<watch_until, observing_timepos, n_handled>>
    /\ UNCHANGED <<inbox, eof, mpv_obs, mpv_msgs, mpv_seeks, n_triggers, n_events>>
    /\ UNCHANGED <<uiVars, bgVars, histVars>>
    /\ UNCHANGED calc

\* ------------------------------------------------------- shadow_out files
\* Writing a file makes it the most recently modified.
Touch(dir, path) == Append(SelectSeq(dir, LAMBDA f : f # path), path)
Exists(dir, path) == \E i \in DOMAIN dir : dir[i] = path

\* file_name.eq_ignore_ascii_case("latest.wav")
IsLatestName(path) == path.kind = "latest"

\* The entries a retention pass collects, oldest first.
Entries(dir, exclude) == SelectSeq(dir, LAMBDA f : f \notin exclude /\ ~IsLatestName(f))

\* The files a retention pass removes: all but the keep newest entries.
Doomed(dir, keep, exclude) ==
    LET en == Entries(dir, exclude)
    IN  IF Len(en) > keep THEN { en[i] : i \in 1..(Len(en) - keep) } ELSE {}

\* The directory after cleanup_old_clips(out_dir, keep, exclude) has run.
cleanup_old_clips(dir, keep, exclude) ==
    SelectSeq(dir, LAMBDA f : f \notin Doomed(dir, keep, exclude))

\* The retention thread of cleanup_old_clips, run to completion where it is
\* spawned: the directory it leaves and the removals it makes.
Retain(dir, exclude) == cleanup_old_clips(dir, KeepCount, exclude)
Pass(dir, exclude) ==
    [before |-> dir, keep |-> KeepCount, exclude |-> exclude, after |-> Retain(dir, exclude)]

\* An ffmpeg wav writer (spawn_wav_writer), run to completion where it is
\* spawned: without -y it does not overwrite; ok is FALSE when the spawn or
\* the encode fails.  latest.wav keeps its place: retention never collects it.
WavWritten(dir, path, overwrite, ok) ==
    IF ~ok \/ (~overwrite /\ Exists(dir, path)) THEN dir
    ELSE IF IsLatestName(path) THEN (IF Exists(dir, path) THEN dir ELSE <<path>> \o dir)
    ELSE Touch(dir, path)

\* --- the trigger body, once the three replies are in
\* A window clamped to the duration even when none is known (dur = 0).
CutWindowAlwaysClamped(s0, e0, dur) ==
    LET s == IF s0 > PadMs THEN s0 - PadMs ELSE 0
        e1 == e0 + PadMs
        e == IF e1 > dur THEN dur ELSE e1
    IN  [s |-> s, e |-> e]

\* Padding + clamping of the current line (s0, e0) under duration dur.
CutWindow(s0, e0, dur) ==
    LET s == IF s0 > PadMs THEN s0 - PadMs ELSE 0
        e1 == e0 + PadMs
        e == IF dur > 0 /\ e1 > dur THEN dur ELSE e1
    IN  [s |-> s, e |-> e]

\* A guard that looks at the media path only.
ShouldExtractAnyWindow(media_path, s, e) == media_path # "<unknown>"

\* The guard of the extraction branch.
ShouldExtract(media_path, s, e) == media_path # "<unknown>" /\ s < e

MediaPath(l) == UnwrapOr(DataStr(l.path), "<unknown>")

\* A handler that confirms on screen even when no line is known.
CutNoLineWithOsd ==
    /\ pc = "cut"
    /\ current_line = None
    /\ Send(ShowText("no active subtitle"))
    /\ pc' = "read"
    /\ loc' = LocInit
    /\ UNCHANGED <<watch_until, observing_timepos, current_line, n_handled, issued>>
    /\ UNCHANGED <<inbox, eof, mpv_obs, mpv_msgs, mpv_seeks, n_triggers, n_events>>
    /\ UNCHANGED <<uiVars, bgVars, histVars, calc>>

\* No current_line: continue.
CutNoLine ==
    /\ pc = "cut"
    /\ current_line = None
    /\ pc' = "read"
    /\ loc' = LocInit
    /\ UNCHANGED <<watch_until, observing_timepos, current_line, n_handled>>
    /\ UNCHANGED <<mpvVars, uiVars, bgVars, histVars>>
    /\ UNCHANGED calc
    /\ UNCHANGED issued

\* The window and track index of this trigger, as locals.
WithWindow(l) ==
    LET cl == Unwrap(current_line)
        dur == UnwrapOr(DataF64(l.duration), 0)
        w == CutWindow(cl.s, cl.e, dur)
    IN  [l EXCEPT !.text = cl.text, !.s = w.s, !.e = w.e, !.dur = dur,
                  !.ff_index = DataF64(l.track_list)]

\* Unknown media path or empty window: nothing is extracted.
CutSkip ==
    /\ pc = "cut"
    /\ current_line # None
    /\ LET l == WithWindow(loc)
       IN  /\ ~ShouldExtract(MediaPath(l), l.s, l.e)
           /\ loc' = l
    /\ pc' = "osd"
    /\ UNCHANGED <<watch_until, observing_timepos, current_line, n_handled>>
    /\ UNCHANGED <<mpvVars, uiVars, bgVars, histVars>>
    /\ UNCHANGED calc
    /\ UNCHANGED issued

\* A registration sent on every trigger.
ObserveCmdsAlways(observing) == <<ObserveProperty(SlotTimePos, "time-pos")>>

\* if !observing_timepos { observe_property 101 time-pos }
ObserveCmds(observing) ==
    IF observing THEN <<>> ELSE <<ObserveProperty(SlotTimePos, "time-pos")>>

\* A handler that seeks before it pauses.
ExtractCmdsSeekFirst(s, observing) ==
    <<SetTimePos(s), SetPause(TRUE)>> \o ObserveCmds(observing)

\* The playback commands of the extraction branch, in the order sent:
\* pause, seek to the window's start, then the registration if none is held.
ExtractCmds(s, observing) ==
    <<SetPause(TRUE), SetTimePos(s)>> \o ObserveCmds(observing)

\* One mic recorder thread with the values it captured.  Every recorder is
\* given latest_mic.wav as its output (-y); wrote and copied are history:
\* whether the recorder wrote the file, and whether the thread's copy to the
\* unique path was made.
MicThread(l, cycle) ==
    [pc |-> "recording", cycle |-> cycle, text |-> l.text, s |-> l.s, e |-> l.e,
     dur |-> l.dur, ff_index |-> l.ff_index, pubno |-> 0,
     wrote |-> FALSE, copied |-> FALSE]

\* list_mic_devices_dshow().first(): no device, or the first one listed.
FirstDevices == {None, Some("audio=Builtin")}

\* A resolution that prefers the first listed device to the user's choice.
ResolveDeviceListedFirst(sel, listed) == IF listed # None THEN listed ELSE sel

\* chosen_dev: the selected device, else the first listed one (the list is
\* asked for only when nothing is selected), else none.
ResolveDevice(sel, listed) == IF sel # None THEN sel ELSE listed

\* Pause, seek, arm the watcher, spawn the two writers, schedule the clip
\* retention, resolve the device and start the recorder (with its readiness
\* wait, which changes nothing).  dshow is what list_mic_devices_dshow
\* returns, mic_ok whether the recorder process could be spawned, wav_ok
\* whether the two encodes succeed.
CutExtract ==
    /\ pc = "cut"
    /\ current_line # None
    /\ \E dshow \in FirstDevices, mic_ok \in BOOLEAN, wav_ok \in BOOLEAN :
         LET l == WithWindow(loc)
             sel == mic_selected
             chosen_dev == ResolveDevice(sel, dshow)
             started == chosen_dev # None /\ mic_ok
             window == [s |-> l.s, e |-> l.e]
         IN  /\ ShouldExtract(MediaPath(l), l.s, l.e)
             /\ outq' = outq \o ExtractCmds(l.s, observing_timepos)
             /\ watch_until' = Some(Max(l.e - WatchLeadMs, 0))
             /\ observing_timepos' = TRUE
             /\ files' = LET exclude == {OutPath(l.s, l.e), LatestPath}
                              kept == Retain(files, exclude)
                          IN  WavWritten(WavWritten(kept, OutPath(l.s, l.e), FALSE, wav_ok),
                                         LatestPath, TRUE, wav_ok)
             /\ passes' = passes \cup {Pass(files, {OutPath(l.s, l.e), LatestPath})}
             /\ mics' = IF started THEN Append(mics, MicThread(l, n_handled)) ELSE mics
             /\ loc' = [l EXCEPT !.mic_device_sel = sel,
                                  !.enumerated = IF sel = None THEN dshow ELSE None,
                                  !.chosen_dev = chosen_dev,
                                  !.mic_started = started]
             /\ spawn_log' = spawn_log \cup
                    ({[what |-> "seek", w |-> window], [what |-> "wav", w |-> window]}
                     \cup (IF started
                           THEN {[what |-> "mic", w |-> window]} ELSE {}))
    /\ pc' = "unpause"
    /\ UNCHANGED <<current_line, n_handled>>
    /\ UNCHANGED <<inbox, eof, mpv_obs, mpv_msgs, mpv_seeks, n_triggers, n_events>>
    /\ UNCHANGED <<uiVars, pubCount, overwritten, unconsumed>>
    /\ UNCHANGED calc
    /\ UNCHANGED issued

\* Unpause, then spawn_pcm_pipe (which may fail).
Unpause ==
    /\ pc = "unpause"
    /\ Send(SetPause(FALSE))
    /\ \E ok \in BOOLEAN :
         /\ loc' = [loc EXCEPT !.pcm = IF ok THEN "running" ELSE "none"]
         /\ pc' = IF ok THEN "analysis" ELSE "osd"
         /\ spawn_log' = IF ok
                          THEN spawn_log \cup {[what |-> "pcm", w |-> [s |-> loc.s, e |-> loc.e]]}
                          ELSE spawn_log
    /\ UNCHANGED <<watch_until, observing_timepos, current_line, n_handled>>
    /\ UNCHANGED <<inbox, eof, mpv_obs, mpv_msgs, mpv_seeks, n_triggers, n_events>>
    /\ UNCHANGED <<uiVars, bgVars, pubCount, overwritten, unconsumed, passes>>
    /\ UNCHANGED calc
    /\ UNCHANGED issued

\* --- the mailbox
\* A mailbox that queues behind what is not taken yet.
PublishQueued(slot, payload) == Append(slot, payload)

\* *guard = Some(payload)
Publish(slot, payload) == Some(payload)

\* A consumer that reads the slot and leaves the payload in it.
TakeLeaves(slot) == slot

\* guard.take(): what is left in the slot
Take(slot) == None

\* A wake-up dropped while another one is still queued.
send_event_coalesced(queue, tag) == IF queue = <<>> THEN <<tag>> ELSE queue

\* proxy.send_event(()): one more UserEvent on the event loop's queue.  tag
\* is history: the number of the payload the sender stored (0 for the
\* device list).
send_event(queue, tag) == Append(queue, tag)

\* Storing a payload, with the history of it.
Store(p) ==
    /\ shared' = Publish(shared, [p EXCEPT !.pubno = pubCount + 1])
    /\ pubCount' = pubCount + 1
    /\ overwritten' = overwritten \cup { q.pubno : q \in {shared[i] : i \in DOMAIN shared} }
    /\ unconsumed' = Append(unconsumed, pubCount + 1)

\* What (latency_ms, rms, peak) the first chunk may measure.
Measurements == { [latency_ms |-> 37, rms |-> 1, peak |-> 2] }

\* The payload the analysis step builds.
AnalysisPayload(l, m, cycle) ==
    [text |-> l.text, s |-> l.s, e |-> l.e, dur |-> l.dur, ff_index |-> l.ff_index,
     out_path |-> OutPath(l.s, l.e), latest_path |-> LatestPath,
     latest_mic_path |-> IF l.mic_device_sel # None THEN Some(LatestMicPath) ELSE None,
     mic_out_path |-> IF l.mic_device_sel # None THEN Some(MicOutPath(l.s, l.e)) ELSE None,
     latency_ms |-> m.latency_ms, rms |-> m.rms, peak |-> m.peak,
     from |-> "analysis", cycle |-> cycle, pubno |-> 0]

\* The payload the mic thread builds from what it captured at spawn time.
MicPayload(t) ==
    [text |-> t.text, s |-> t.s, e |-> t.e, dur |-> t.dur, ff_index |-> t.ff_index,
     out_path |-> OutPath(t.s, t.e), latest_path |-> LatestPath,
     latest_mic_path |-> Some(LatestMicPath),
     mic_out_path |-> Some(MicOutPath(t.s, t.e)),
     latency_ms |-> 0, rms |-> 0, peak |-> 0,
     from |-> "mic", cycle |-> t.cycle, pubno |-> 0]

\* What recv_timeout may return other than a measurement: Ok(Err(msg)) with
\* one of the reader thread's two messages, or Err (the 200 ms are over).
PcmFailures == {"ffmpeg pipe returned 0 bytes", "ffmpeg pipe read error", "timeout"}

\* A caller that kills on no failure.
PcmDispositionLeaks(failure) == "dropped"

\* A caller that leaves alone a process whose stream has ended.
PcmDispositionSparesEnded(failure) ==
    IF failure = None \/ failure = Some("ffmpeg pipe returned 0 bytes")
    THEN "dropped" ELSE "killed"

\* What becomes of the raw-sample process after recv_timeout: on a
\* measurement the child is dropped as it is, on Ok(Err(msg)) and on Err
\* alike the caller kills and reaps it.
PcmDisposition(failure) == IF failure = None THEN "dropped" ELSE "killed"

\* recv_timeout returned a measurement: store the payload.
AnalysisOk ==
    /\ pc = "analysis"
    /\ \E m \in Measurements : Store(AnalysisPayload(loc, m, n_handled))
    /\ loc' = [loc EXCEPT !.pcm = PcmDisposition(None), !.pubno = pubCount + 1]
    /\ pc' = "notify"
    /\ UNCHANGED <<watch_until, observing_timepos, current_line, n_handled>>
    /\ UNCHANGED <<devices_shared, mic_selected, wakes, dev_pc, delivered>>
    /\ UNCHANGED <<mpvVars, bgVars, passes, spawn_log>>
    /\ UNCHANGED calc
    /\ UNCHANGED issued

\* A failed analysis that gives the cycle up.
AnalysisFailAborts ==
    /\ pc = "analysis"
    /\ \E why \in PcmFailures :
         loc' = [LocInit EXCEPT !.pcm = PcmDisposition(Some(why)), !.pcm_msg = Some(why)]
    /\ pc' = "read"
    /\ UNCHANGED <<watch_until, observing_timepos, current_line, n_handled>>
    /\ UNCHANGED <<mpvVars, uiVars, bgVars, histVars>>
    /\ UNCHANGED calc
    /\ UNCHANGED issued

\* recv_timeout returned an error message or timed out: log, kill and reap,
\* publish nothing.
AnalysisFail ==
    /\ pc = "analysis"
    /\ \E why \in PcmFailures :
         loc' = [loc EXCEPT !.pcm = PcmDisposition(Some(why)), !.pcm_msg = Some(why)]
    /\ pc' = "osd"
    /\ UNCHANGED <<watch_until, observing_timepos, current_line, n_handled>>
    /\ UNCHANGED <<mpvVars, uiVars, bgVars, histVars>>
    /\ UNCHANGED calc
    /\ UNCHANGED issued

\* proxy.send_event(()) after the store.
AnalysisNotify ==
    /\ pc = "notify"
    /\ wakes' = send_event(wakes, loc.pubno)
    /\ pc' = "osd"
    /\ UNCHANGED <<watch_until, observing_timepos, current_line, loc, n_handled>>
    /\ UNCHANGED <<shared, devices_shared, mic_selected, dev_pc, delivered>>
    /\ UNCHANGED <<mpvVars, bgVars, histVars>>
    /\ UNCHANGED calc
    /\ UNCHANGED issued

\* A confirmation that looks at the text only, not at the window.
OsdMessageTextOnly(l) == IF l.text # None THEN "cut" ELSE "no active subtitle"

\* The message of the on-screen confirmation.
OsdMessage(l) == IF l.text # None /\ l.s < l.e THEN "cut" ELSE "no active subtitle"

\* show-text, then back to the top of the loop.
Osd ==
    /\ pc = "osd"
    /\ Send(ShowText(OsdMessage(loc)))
    /\ pc' = "read"
    /\ loc' = LocInit
    /\ UNCHANGED <<watch_until, observing_timepos, current_line, n_handled>>
    /\ UNCHANGED <<inbox, eof, mpv_obs, mpv_msgs, mpv_seeks, n_triggers, n_events>>
    /\ UNCHANGED <<uiVars, bgVars, histVars>>
    /\ UNCHANGED calc
    /\ UNCHANGED issued

\* --- the mic recorder thread
\* child.wait() returns (the recorder wrote latest_mic.wav, or failed); copy
\* latest_mic.wav to the unique path (best effort), run the mic retention,
\* store the payload.
MicFinish ==
    /\ \E i \in DOMAIN mics, wrote \in BOOLEAN :
         LET unique == MicOutPath(mics[i].s, mics[i].e)
             recorded == IF wrote THEN Touch(files, LatestMicPath) ELSE files
             copied == IF Exists(recorded, LatestMicPath) THEN Touch(recorded, unique)
                       ELSE recorded
         IN  /\ mics[i].pc = "recording"
             /\ files' = Retain(copied, {LatestMicPath, unique})
             /\ passes' = passes \cup {Pass(copied, {LatestMicPath, unique})}
             /\ Store(MicPayload(mics[i]))
             /\ mics' = [mics EXCEPT ![i].pc = "notify", ![i].pubno = pubCount + 1,
                                      ![i].wrote = wrote,
                                      ![i].copied = Exists(recorded, LatestMicPath)]
    /\ UNCHANGED <<devices_shared, mic_selected, wakes, dev_pc, delivered>>
    /\ UNCHANGED <<mpvVars, anVars, spawn_log>>
    /\ UNCHANGED calc

\* proxy.send_event(()) of the mic thread.
MicNotify ==
    /\ \E i \in DOMAIN mics :
         /\ mics[i].pc = "notify"
         /\ wakes' = send_event(wakes, mics[i].pubno)
         /\ mics' = [mics EXCEPT ![i].pc = "done"]
    /\ UNCHANGED files
    /\ UNCHANGED <<shared, devices_shared, mic_selected, dev_pc, delivered>>
    /\ UNCHANGED <<mpvVars, anVars, histVars>>
    /\ UNCHANGED calc

\* ------------------------------------------------------------------- main
\* The device scan thread stores its list and wakes the event loop.
DeviceScan ==
    /\ dev_pc = "scan"
    /\ devices_shared' = Some(<<"audio=Mic">>)
    /\ wakes' = send_event(wakes, 0)
    /\ dev_pc' = "done"
    /\ UNCHANGED <<shared, mic_selected, delivered>>
    /\ UNCHANGED <<mpvVars, anVars, bgVars, histVars>>
    /\ UNCHANGED calc

\* Event::UserEvent(()): take the snapshot and the device list, if any.
UserEvent ==
    /\ wakes # <<>>
    /\ wakes' = Tail(wakes)
    /\ delivered' = IF shared # None THEN Append(delivered, Unwrap(shared)) ELSE delivered
    /\ shared' = Take(shared)
    /\ devices_shared' = None
    /\ unconsumed' = <<>>
    /\ UNCHANGED <<mic_selected, dev_pc>>
    /\ UNCHANGED <<mpvVars, anVars, bgVars, pubCount, overwritten, passes, spawn_log>>
    /\ UNCHANGED calc

\* The webview reports the user's device choice ("default" clears it).  The
\* choice is read only by the trigger body, so choices made after the last
\* trigger was handled are left out.
IpcMicDevice ==
    /\ n_handled < MaxTriggers
    /\ \E val \in {"default", "audio=Mic"} :
         /\ mic_selected' = IF val = "default" THEN None ELSE Some(val)
         /\ mic_selected' # mic_selected
    /\ UNCHANGED <<shared, devices_shared, wakes, dev_pc, delivered>>
    /\ UNCHANGED <<mpvVars, anVars, bgVars, histVars>>
    /\ UNCHANGED calc

\* ------------------------------------------------------------------- Next
Next ==
    \/ MpvProcess \/ MpvTrigger \/ MpvSubText \/ MpvTimePos \/ MpvOther \/ MpvClose
    \/ ReadEof \/ ReadSkip \/ ReadTimePos \/ ReadSubText \/ ReadTrigger
    \/ ReplySkip \/ ReplyReturn \/ ReplyEof
    \/ CutNoLine \/ CutSkip \/ CutExtract \/ Unpause
    \/ AnalysisOk \/ AnalysisFail \/ AnalysisNotify \/ Osd
    \/ MicFinish \/ MicNotify
    \/ DeviceScan \/ UserEvent \/ IpcMicDevice

Spec == Init /\ [][Next]_vars

\* The scheduler runs every thread that can take a step: the event loop
\* handles a queued UserEvent, a thread that stored a payload goes on to
\* send its wake-up.
FairSpec ==
    /\ Spec
    /\ WF_vars(UserEvent)
    /\ WF_vars(AnalysisNotify)
    /\ WF_vars(MicNotify)

\* Any step of the run_analyzer thread.
AnalyzerStep ==
    \/ ReadEof \/ ReadSkip \/ ReadTimePos \/ ReadSubText \/ ReadTrigger
    \/ ReplySkip \/ ReplyReturn \/ ReplyEof
    \/ CutNoLine \/ CutSkip \/ CutExtract \/ Unpause
    \/ AnalysisOk \/ AnalysisFail \/ AnalysisNotify \/ Osd

\* Every thread that can take a step is run: the analyzer thread (none of
\* its steps waits without a bound once the channel has closed), a mic
\* recorder (its recording has a bounded duration), and the event loop.
FairThreads ==
    /\ Spec
    /\ WF_vars(AnalyzerStep)
    /\ WF_vars(MicFinish)
    /\ WF_vars(MicNotify)
    /\ WF_vars(UserEvent)

\* A later run, over a directory earlier takes have filled.
SpecRetention == InitRetention /\ [][Next]_vars

\* ------------------------------------------------ a trigger while Watching
\* The loop at its read after an earlier trigger: that take was of a line
\* further on, (1.300, 1.400), its window (1.200, 1.500) is on disk and its
\* threshold 1.480 is still armed with the time-pos observation registered;
\* the user has sought back and the line (1.000, 1.100) is the current one.
\* Everything the earlier take published has been delivered; the counters
\* and histories count from here on.
InitWatch ==
    /\ inbox = <<>>
    /\ outq = <<>>
    /\ eof = FALSE
    /\ mpv_obs = {SlotSubText, SlotTimePos}
    /\ mpv_msgs = TRUE
    /\ mpv_seeks = 0
    /\ n_triggers = 0
    /\ n_events = 0
    /\ pc = "read"
    /\ watch_until = Some(1480)
    /\ observing_timepos = TRUE
    /\ current_line = Some([text |-> Some("hello"), s |-> 1000, e |-> 1100])
    /\ loc = LocInit
    /\ n_handled = 0
    /\ issued = {ReqSubStart, ReqSubEnd, ReqDuration, ReqPath, ReqTrackList}
    /\ shared = None
    /\ devices_shared = None
    /\ mic_selected = None
    /\ wakes = <<>>
    /\ dev_pc = "done"
    /\ delivered = <<>>
    /\ mics = <<>>
    /\ files = <<LatestPath, OutPath(1200, 1500)>>
    /\ pubCount = 0
    /\ overwritten = {}
    /\ unconsumed = <<>>
    /\ passes = {}
    /\ spawn_log = {}
    /\ calc = NoCall

\* A line is known and the device scan is over: the steps that remain.
NextWatch ==
    \/ MpvProcess \/ MpvTrigger \/ MpvSubText \/ MpvTimePos \/ MpvOther \/ MpvClose
    \/ ReadEof \/ ReadSkip \/ ReadTimePos \/ ReadSubText \/ ReadTrigger
    \/ ReplySkip \/ ReplyReturn \/ ReplyEof
    \/ CutSkip \/ CutExtract \/ Unpause
    \/ AnalysisOk \/ AnalysisFail \/ AnalysisNotify \/ Osd
    \/ MicFinish \/ MicNotify
    \/ UserEvent \/ IpcMicDevice

SpecWatch == InitWatch /\ [][NextWatch]_vars

\* ------------------------------------------- a trigger during a recording
\* As InitWatch, a moment earlier: the mic recorder of the earlier take
\* (cycle 0, window (1.200, 1.500)) is still recording, its thread waits
\* for it, and the analysis snapshot of that take has been delivered.
EarlierTake == [LocInit EXCEPT !.text = Some("later"), !.s = 1200, !.e = 1500]

InitOverlap ==
    /\ inbox = <<>>
    /\ outq = <<>>
    /\ eof = FALSE
    /\ mpv_obs = {SlotSubText, SlotTimePos}
    /\ mpv_msgs = TRUE
    /\ mpv_seeks = 0
    /\ n_triggers = 0
    /\ n_events = 0
    /\ pc = "read"
    /\ watch_until = Some(1480)
    /\ observing_timepos = TRUE
    /\ current_line = Some([text |-> Some("hello"), s |-> 1000, e |-> 1100])
    /\ loc = LocInit
    /\ n_handled = 0
    /\ issued = {ReqSubStart, ReqSubEnd, ReqDuration, ReqPath, ReqTrackList}
    /\ shared = None
    /\ devices_shared = None
    /\ mic_selected = None
    /\ wakes = <<>>
    /\ dev_pc = "done"
    /\ delivered = <<>>
    /\ mics = <<MicThread(EarlierTake, 0)>>
    /\ files = <<LatestPath, OutPath(1200, 1500)>>
    /\ pubCount = 0
    /\ overwritten = {}
    /\ unconsumed = <<>>
    /\ passes = {}
    /\ spawn_log = {}
    /\ calc = NoCall

\* The steps of such a run in which mpv writes nothing of its own but the
\* trigger: no subtitle, position or other event.
NextOverlap ==
    \/ MpvProcess \/ MpvTrigger \/ MpvClose
    \/ ReadEof \/ ReadTrigger
    \/ ReplyReturn \/ ReplyEof
    \/ CutSkip \/ CutExtract \/ Unpause
    \/ AnalysisOk \/ AnalysisFail \/ AnalysisNotify \/ Osd
    \/ MicFinish \/ MicNotify
    \/ UserEvent

SpecOverlap == InitOverlap /\ [][NextOverlap]_vars

\* ------------------------------------------------------------------ wav.rs
\* A parsed file: the WavInfo of its fmt chunk and the bytes of its data
\* chunk, as parse_header_minimal hands them over.  Samples are exact
\* rationals [num, den]: with one or two channels every f32 operation of
\* the decoder (i16 / 32768, the sum over a frame, / ch, the 2-tap
\* average) is exact.
MaxDataBytes == 12
ByteValues == {0, 255}
WavRates == {48000, 44100}
WavChannels == {0, 1, 2}
WavBits == {16, 8}
WavTargets == {None, Some(24000)}

RECURSIVE SeqsUpTo(_, _)
SeqsUpTo(S, n) ==
    IF n = 0 THEN {<<>>}
    ELSE LET shorter == SeqsUpTo(S, n - 1)
         IN  shorter \cup { Append(q, x) : q \in { r \in shorter : Len(r) = n - 1 }, x \in S }

\* ((hi as i8 as i32) << 8) | lo
SampleI16(lo, hi) == (IF hi >= 128 THEN hi - 256 ELSE hi) * 256 + lo

\* The inner loop of one frame: the sum of its ch samples, i the 0-based
\* offset of the frame's first byte.
RECURSIVE FrameAcc(_, _, _)
FrameAcc(bytes, i, c) ==
    IF c = 0 THEN 0
    ELSE SampleI16(bytes[i + 1], bytes[i + 2]) + FrameAcc(bytes, i + 2, c - 1)

\* mono: one sample per whole frame, acc / ch.
Downmix(bytes, channels) ==
    LET total_samples == Len(bytes) \div 2
        ch == Max(channels, 1)
        frames == total_samples \div ch
    IN  [k \in 1..frames |->
           [num |-> FrameAcc(bytes, 2 * ch * (k - 1), ch), den |-> 32768 * ch]]

\* A decimation that also emits a last sample left without a partner.
RECURSIVE DecimateKeepTail(_, _)
DecimateKeepTail(mono, j) ==
    IF j + 1 < Len(mono)
    THEN << [num |-> mono[j + 1].num + mono[j + 2].num, den |-> 2 * mono[j + 1].den] >>
         \o DecimateKeepTail(mono, j + 2)
    ELSE IF j < Len(mono) THEN << mono[j + 1] >> ELSE <<>>

\* while j + 1 < mono.len() { dec.push(0.5 * (mono[j] + mono[j + 1])); j += 2 }
RECURSIVE Decimate(_, _)
Decimate(mono, j) ==
    IF j + 1 < Len(mono)
    THEN << [num |-> mono[j + 1].num + mono[j + 2].num, den |-> 2 * mono[j + 1].den] >>
         \o Decimate(mono, j + 2)
    ELSE <<>>

\* read_wav_mono_16bit after the header is parsed.
read_wav_mono_16bit(info, bytes, target_sample_rate) ==
    IF info.bits_per_sample # 16
    THEN [ok |-> FALSE, samples |-> <<>>, rate |-> 0]
    ELSE IF Len(bytes) \div 2 = 0
    THEN [ok |-> TRUE, samples |-> <<>>,
          rate |-> UnwrapOr(target_sample_rate, info.sample_rate)]
    ELSE LET mono == Downmix(bytes, info.channels)
             out_sr == UnwrapOr(target_sample_rate, info.sample_rate)
         IN  IF info.sample_rate = 48000 /\ out_sr = 24000
             THEN [ok |-> TRUE, samples |-> Decimate(mono, 0), rate |-> out_sr]
             ELSE [ok |-> TRUE, samples |-> mono, rate |-> info.sample_rate]

\* A call of the decoder on some file, nothing else going on.
InitWav ==
    /\ Connected(<<>>)
    /\ \E sr \in WavRates, ch \in WavChannels, bits \in WavBits,
          tgt \in WavTargets, bytes \in SeqsUpTo(ByteValues, MaxDataBytes) :
         calc = [op |-> "read_wav",
                 info |-> [sample_rate |-> sr, channels |-> ch, bits_per_sample |-> bits],
                 bytes |-> bytes, target |-> tgt]

\* The call returns Ok.
WavOk ==
    /\ calc.op = "read_wav"
    /\ LET r == read_wav_mono_16bit(calc.info, calc.bytes, calc.target)
       IN  /\ r.ok
           /\ calc' = [op |-> "wav_ok", info |-> calc.info, bytes |-> calc.bytes,
                       target |-> calc.target, samples |-> r.samples, rate |-> r.rate]
    /\ UNCHANGED <<mpvVars, anVars, uiVars, bgVars, histVars>>

\* The call bails.
WavErr ==
    /\ calc.op = "read_wav"
    /\ ~read_wav_mono_16bit(calc.info, calc.bytes, calc.target).ok
    /\ calc' = [op |-> "wav_err", info |-> calc.info, bytes |-> calc.bytes,
                target |-> calc.target]
    /\ UNCHANGED <<mpvVars, anVars, uiVars, bgVars, histVars>>

NextWav == WavOk \/ WavErr

SpecWav == InitWav /\ [][NextWav]_vars

\* The file as parse_header_minimal sees it: the two magics and the chunks
\* in file order.  A chunk has its id, its declared size, whether that size
\* runs past the end of the file (over), and its payload: the fields of a
\* format chunk or the bytes of a data chunk.
MaxChunks == 2
MaxFileData == 4
WavFormats == {1, 3}
FmtHeadLen == 16
MinFileLen == 44

FmtChunks ==
    { [id |-> "fmt ", size |-> FmtHeadLen, over |-> FALSE, audio_format |-> af,
       channels |-> ch, sample_rate |-> sr, bits_per_sample |-> bits, bytes |-> <<>>] :
         af \in WavFormats, ch \in WavChannels, sr \in WavRates, bits \in WavBits }
    \cup { [id |-> "fmt ", size |-> 14, over |-> FALSE, audio_format |-> 1,
            channels |-> 1, sample_rate |-> 48000, bits_per_sample |-> 16, bytes |-> <<>>] }

DataChunks ==
    { [id |-> "data", size |-> Len(b) + (IF over THEN 2 ELSE 0), over |-> over,
       audio_format |-> 0, channels |-> 0, sample_rate |-> 0, bits_per_sample |-> 0,
       bytes |-> b] : b \in SeqsUpTo(ByteValues, MaxFileData), over \in BOOLEAN }

OtherChunks ==
    { [id |-> "LIST", size |-> 0, over |-> FALSE, audio_format |-> 0, channels |-> 0,
       sample_rate |-> 0, bits_per_sample |-> 0, bytes |-> <<>>] }

WavFiles ==
    [riff : BOOLEAN, wave : BOOLEAN,
     chunks : SeqsUpTo(FmtChunks \cup DataChunks \cup OtherChunks, MaxChunks)]

\* buf.len(): 12 bytes of container header, then per chunk 8 bytes and the
\* payload bytes that are there.
RECURSIVE ChunksLen(_)
ChunksLen(chunks) ==
    IF chunks = <<>> THEN 0
    ELSE 8 + (IF Head(chunks).id = "data" THEN Len(Head(chunks).bytes) ELSE Head(chunks).size)
           + ChunksLen(Tail(chunks))

FileLen(buf) == 12 + ChunksLen(buf.chunks)

HeaderErr(msg) == [ok |-> FALSE, msg |-> msg, info |-> None, data |-> None]

\* The chunk walk from chunk k on, with info and data as found so far.
RECURSIVE WalkChunks(_, _, _, _)
WalkChunks(chunks, k, info, data) ==
    IF k > Len(chunks)
    THEN IF info = None THEN HeaderErr("missing fmt chunk")
         ELSE IF data = None THEN HeaderErr("missing data chunk")
         ELSE [ok |-> TRUE, msg |-> "", info |-> info, data |-> data]
    ELSE LET c == chunks[k]
         IN  IF c.over THEN HeaderErr("chunk OOB")
             ELSE IF c.id = "fmt "
             THEN IF c.size < FmtHeadLen THEN HeaderErr("fmt too small")
                  ELSE IF c.audio_format # 1 THEN HeaderErr("unsupported format")
                  ELSE WalkChunks(chunks, k + 1,
                                  Some([sample_rate |-> c.sample_rate, channels |-> c.channels,
                                        bits_per_sample |-> c.bits_per_sample]),
                                  data)
             ELSE IF c.id = "data" THEN WalkChunks(chunks, k + 1, info, Some(c.bytes))
             ELSE WalkChunks(chunks, k + 1, info, data)

parse_header_minimal(buf) ==
    IF FileLen(buf) < MinFileLen THEN HeaderErr("wav too small")
    ELSE IF ~buf.riff \/ ~buf.wave THEN HeaderErr("not RIFF/WAVE")
    ELSE WalkChunks(buf.chunks, 1, None, None)

\* read_wav_mono_16bit from the file on: the header, then the decoding of
\* the data chunk.  The chunk walk has already refused a data chunk that
\* runs past the end, so the bounds test after it never fires.
read_wav_file(buf, target_sample_rate) ==
    LET h == parse_header_minimal(buf)
    IN  IF ~h.ok THEN [ok |-> FALSE, samples |-> <<>>, rate |-> 0]
        ELSE read_wav_mono_16bit(h.info[1], h.data[1], target_sample_rate)

\* A call of the decoder on some file, header included.
InitWavFile ==
    /\ Connected(<<>>)
    /\ \E buf \in WavFiles, tgt \in WavTargets :
         calc = [op |-> "read_wav_file", file |-> buf, target |-> tgt]

\* The call returns Ok.
WavFileOk ==
    /\ calc.op = "read_wav_file"
    /\ LET r == read_wav_file(calc.file, calc.target)
       IN  /\ r.ok
           /\ calc' = [op |-> "file_ok", file |-> calc.file, target |-> calc.target,
                       samples |-> r.samples, rate |-> r.rate]
    /\ UNCHANGED <<mpvVars, anVars, uiVars, bgVars, histVars>>

\* The call bails.
WavFileErr ==
    /\ calc.op = "read_wav_file"
    /\ ~read_wav_file(calc.file, calc.target).ok
    /\ calc' = [op |-> "file_err", file |-> calc.file, target |-> calc.target]
    /\ UNCHANGED <<mpvVars, anVars, uiVars, bgVars, histVars>>

NextWavFile == WavFileOk \/ WavFileErr

SpecWavFile == InitWavFile /\ [][NextWavFile]_vars

\* ---------------------------------------------------------------- pitch.rs
\* Samples are integers (a common scale cancels in the NSDF), every float
\* is an exact rational [num, den] with den > 0, the threshold is given in
\* hundredths.  With the small frames and sample values used here the f64
\* sums are exact and two NSDF values that differ as rationals differ as
\* f32, so the comparisons come out as in the code.
MaxSamples == 7
SampleValues == {-1, 0, 1}
PitchRate == 12
PitchFmax == 6
PitchFmins == {2, 3}
PitchFrameSizes == {2, 5, 6}
PitchHops == {0, 2}
PitchThresholds == {0, 40, 150}

Rat(n, d) == [num |-> n, den |-> d]
RatLt(a, b) == a.num * b.den < b.num * a.den
RatLe(a, b) == a.num * b.den <= b.num * a.den
RatMax(a, b) == IF RatLt(a, b) THEN b ELSE a
RatMin(a, b) == IF RatLt(b, a) THEN b ELSE a

\* tau_min, tau_max and the clamped threshold of a configuration.
TauMin(cfg) == Max(Max(cfg.sample_rate_hz, 1) \div Max(cfg.fmax_hz, 1), 2)
TauMax(cfg) ==
    LET sr == Max(cfg.sample_rate_hz, 1)
        fmin == Max(cfg.fmin_hz, 1)
    IN  Max((sr + fmin - 1) \div fmin, TauMin(cfg) + 1)
NsdfThresh(cfg) == Rat(Min(Max(cfg.nsdf_threshold, 0), 100), 100)

\* num += a * b over j in 0..limit
RECURSIVE NumSum(_, _, _)
NumSum(frame, tau, limit) ==
    IF limit = 0 THEN 0
    ELSE frame[limit] * frame[limit + tau] + NumSum(frame, tau, limit - 1)

\* den += a * a + b * b over j in 0..limit
RECURSIVE DenSum(_, _, _)
DenSum(frame, tau, limit) ==
    IF limit = 0 THEN 0
    ELSE frame[limit] * frame[limit] + frame[limit + tau] * frame[limit + tau]
         + DenSum(frame, tau, limit - 1)

\* nsdf[tau] of one frame (tau <= frame_size).
Nsdf(frame, tau) ==
    LET limit == Len(frame) - tau
    IN  IF limit < 2 THEN Rat(0, 1)
        ELSE LET num == NumSum(frame, tau, limit)
                 den == DenSum(frame, tau, limit)
             IN  IF den > 0 THEN Rat(2 * num, den) ELSE Rat(0, 1)

\* A peak test that lets a lag pass when it equals the one before it.
IsPeakNonStrict(prev, cur, next, best_val) ==
    RatLe(prev, cur) /\ RatLe(next, cur) /\ RatLt(best_val, cur)

\* cur > prev && cur >= next && cur > best_val
IsPeak(prev, cur, next, best_val) ==
    RatLt(prev, cur) /\ RatLe(next, cur) /\ RatLt(best_val, cur)

\* The peak-picking loop from tau up to tau_max - 1, best = (tau, val) so far.
RECURSIVE PickPeak(_, _, _, _)
PickPeak(nsdf, tau, tau_max, best) ==
    IF tau >= tau_max THEN best
    ELSE PickPeak(nsdf, tau + 1, tau_max,
                  IF IsPeak(nsdf[tau - 1], nsdf[tau], nsdf[tau + 1], best.val)
                  THEN [tau |-> tau, val |-> nsdf[tau]] ELSE best)

\* sr / tau_refined, tau_refined the parabolic vertex around best_tau
\* clamped to [tau_min, tau_max].
RefinedFreq(nsdf, best_tau, tau_min, tau_max, sr) ==
    LET l == nsdf[best_tau - 1]
        c == nsdf[best_tau]
        r == nsdf[best_tau + 1]
        L == l.num * c.den * r.den
        C == c.num * l.den * r.den
        R == r.num * l.den * c.den
        denom == L - 2 * C + R
        delta == IF denom = 0 THEN Rat(0, 1)
                 ELSE IF denom > 0 THEN Rat(L - R, 2 * denom)
                 ELSE Rat(R - L, -2 * denom)
        tau_raw == Rat(best_tau * delta.den + delta.num, delta.den)
        tau_refined == RatMin(RatMax(tau_raw, Rat(tau_min, 1)), Rat(tau_max, 1))
    IN  Rat(sr * tau_refined.den, tau_refined.num)

\* The voicing decision of one frame from its nsdf vector: (voiced, f0_hz),
\* f0_hz = 0 for unvoiced.
FrameF0(nsdf, tau_min, tau_max, nsdf_thresh, sr) ==
    LET best == PickPeak(nsdf, tau_min + 1, tau_max, [tau |-> 0, val |-> Rat(-1, 1)])
        voiced == /\ best.tau >= tau_min
                  /\ best.tau <= tau_max
                  /\ RatLe(nsdf_thresh, best.val)
    IN  [voiced |-> voiced,
         f0_hz |-> IF voiced THEN RefinedFreq(nsdf, best.tau, tau_min, tau_max, sr)
                   ELSE Rat(0, 1)]

\* voiced_vals.sort_by(partial_cmp)
RECURSIVE SortRats(_)
SortRats(q) ==
    IF q = <<>> THEN <<>>
    ELSE LET rest == SortRats(Tail(q))
             x == Head(q)
             below == SelectSeq(rest, LAMBDA y : RatLt(y, x))
             above == SelectSeq(rest, LAMBDA y : ~RatLt(y, x))
         IN  below \o <<x>> \o above

\* The median over the voiced frames.
Median(f0_series) ==
    LET voiced_vals == SortRats(SelectSeq(f0_series, LAMBDA x : x.num > 0))
        n == Len(voiced_vals)
        mid == n \div 2
    IN  IF n = 0 THEN None
        ELSE IF n % 2 = 1 THEN Some(voiced_vals[mid + 1])
        ELSE LET a == voiced_vals[mid]
                 b == voiced_vals[mid + 1]
             IN  Some(Rat(a.num * b.den + b.num * a.den, 2 * a.den * b.den))

\* voiced / frames, 0 without frames.
VoicedRatio(voiced_flags) ==
    IF voiced_flags = <<>> THEN Rat(0, 1)
    ELSE Rat(Len(SelectSeq(voiced_flags, LAMBDA b : b)), Len(voiced_flags))

\* F0Result::default()
F0Default ==
    [f0_hz |-> <<>>, voiced_flags |-> <<>>, median_hz |-> None, voiced_ratio |-> Rat(0, 1)]

\* A call of estimate_f0_mpm on some samples, nothing else going on.
InitPitch ==
    /\ Connected(<<>>)
    /\ \E samples \in SeqsUpTo(SampleValues, MaxSamples), fs \in PitchFrameSizes,
          hop \in PitchHops, fmin \in PitchFmins, th \in PitchThresholds :
         calc = [op |-> "estimate_f0", samples |-> samples,
                 cfg |-> [sample_rate_hz |-> PitchRate, frame_size |-> fs,
                          hop_size |-> hop, fmin_hz |-> fmin, fmax_hz |-> PitchFmax,
                          nsdf_threshold |-> th],
                 start |-> 0, nsdf |-> <<>>, res |-> F0Default]

\* The entry: the early return, or into the frame loop.
PitchBegin ==
    /\ calc.op = "estimate_f0"
    /\ calc' = [calc EXCEPT !.op = IF calc.samples = <<>> \/ calc.cfg.frame_size < 3
                                   THEN "f0_done" ELSE "f0_loop"]
    /\ UNCHANGED <<mpvVars, anVars, uiVars, bgVars, histVars>>

\* One more frame fits and every lag fits the frame: fill nsdf.
PitchNsdf ==
    /\ calc.op = "f0_loop"
    /\ calc.start + calc.cfg.frame_size <= Len(calc.samples)
    /\ TauMax(calc.cfg) <= calc.cfg.frame_size
    /\ LET frame == SubSeq(calc.samples, calc.start + 1, calc.start + calc.cfg.frame_size)
       IN  calc' = [calc EXCEPT
                      !.op = "f0_peak",
                      !.nsdf = [tau \in TauMin(calc.cfg)..TauMax(calc.cfg) |-> Nsdf(frame, tau)]]
    /\ UNCHANGED <<mpvVars, anVars, uiVars, bgVars, histVars>>

\* One more frame fits but a lag exceeds the frame size: frame_size - tau
\* underflows, a panic in a checked build; in an unchecked one the wrapped
\* limit sends frame[j + tau] out of bounds, a panic as well.
PitchPanic ==
    /\ calc.op = "f0_loop"
    /\ calc.start + calc.cfg.frame_size <= Len(calc.samples)
    /\ TauMax(calc.cfg) > calc.cfg.frame_size
    /\ calc' = [calc EXCEPT !.op = "f0_panic"]
    /\ UNCHANGED <<mpvVars, anVars, uiVars, bgVars, histVars>>

\* Peak picking and the voicing decision of the frame, then start += hop.
PitchPeak ==
    /\ calc.op = "f0_peak"
    /\ LET f == FrameF0(calc.nsdf, TauMin(calc.cfg), TauMax(calc.cfg),
                        NsdfThresh(calc.cfg), Max(calc.cfg.sample_rate_hz, 1))
       IN  calc' = [calc EXCEPT
                      !.op = "f0_loop",
                      !.nsdf = <<>>,
                      !.start = calc.start + Max(calc.cfg.hop_size, 1),
                      !.res.f0_hz = Append(calc.res.f0_hz, f.f0_hz),
                      !.res.voiced_flags = Append(calc.res.voiced_flags, f.voiced)]
    /\ UNCHANGED <<mpvVars, anVars, uiVars, bgVars, histVars>>

\* No further frame fits: the median and the ratio, and return.
PitchFinish ==
    /\ calc.op = "f0_loop"
    /\ calc.start + calc.cfg.frame_size > Len(calc.samples)
    /\ calc' = [calc EXCEPT
                  !.op = "f0_done",
                  !.res.median_hz = Median(calc.res.f0_hz),
                  !.res.voiced_ratio = VoicedRatio(calc.res.voiced_flags)]
    /\ UNCHANGED <<mpvVars, anVars, uiVars, bgVars, histVars>>

\* estimate_f0_mpm, step by step.
estimate_f0_mpm == PitchBegin \/ PitchNsdf \/ PitchPanic \/ PitchPeak \/ PitchFinish

NextPitch == estimate_f0_mpm

SpecPitch == InitPitch /\ [][NextPitch]_vars

\* --------------------------------------------------- the cut window alone
\* The lines and durations the window computation is checked over.
WindowStarts == {0, 50, 100, 150, 1000}
WindowEnds == {60, 200, 1100}
WindowDurations == {None, Some(0), Some(120), Some(1150), Some(5000)}

\* The trigger body about to compute its window: a current line with
\* end > start is known, the three replies are in (a missing duration or
\* path stands for a reply without usable data).
InitCut ==
    /\ inbox = <<>>
    /\ outq = <<>>
    /\ eof = FALSE
    /\ mpv_obs = {SlotSubText}
    /\ mpv_msgs = TRUE
    /\ mpv_seeks = 0
    /\ n_triggers = MaxTriggers
    /\ n_events = MaxEvents
    /\ pc = "cut"
    /\ watch_until = None
    /\ observing_timepos = FALSE
    /\ \E s0 \in WindowStarts, e0 \in WindowEnds :
         /\ e0 > s0
         /\ current_line = Some([text |-> Some("hello"), s |-> s0, e |-> e0])
    /\ \E d \in WindowDurations, p \in PathData, t \in TrackData :
         loc = [LocInit EXCEPT !.duration = Some(Reply(ReqDuration, d, None)),
                               !.path = Some(Reply(ReqPath, None, p)),
                               !.track_list = Some(Reply(ReqTrackList, t, None))]
    /\ n_handled = 1
    /\ issued = {ReqSubStart, ReqSubEnd, ReqDuration, ReqPath, ReqTrackList}
    /\ shared = None
    /\ devices_shared = None
    /\ mic_selected \in {None, Some("audio=Mic")}
    /\ wakes = <<>>
    /\ dev_pc = "done"
    /\ delivered = <<>>
    /\ mics = <<>>
    /\ files = <<>>
    /\ pubCount = 0
    /\ overwritten = {}
    /\ unconsumed = <<>>
    /\ passes = {}
    /\ spawn_log = {}
    /\ calc = NoCall

NextCut == CutSkip \/ CutExtract \/ Unpause

SpecWindow == InitCut /\ [][NextCut]_vars

\* ----------------------------------------------------------------- claims
Range(q) == { q[i] : i \in DOMAIN q }
DeliveredNos == { delivered[i].pubno : i \in DOMAIN delivered }

\* The publisher of payload k has stored it and not sent its wake-up yet.
NotifyPending(k) ==
    \/ pc = "notify" /\ loc.pubno = k
    \/ \E i \in DOMAIN mics : mics[i].pc = "notify" /\ mics[i].pubno = k

\* The queued wake-ups sent for payload k.
WakesFor(k) == Cardinality({ i \in DOMAIN wakes : wakes[i] = k })

\* The commands the step appends to the pipe.
Sent ==
    IF Len(outq') > Len(outq) THEN SubSeq(outq', Len(outq) + 1, Len(outq')) ELSE <<>>

\* C1: get_property / read_reply_with_id returns only a line whose
\* request_id equals the id it sent: whenever a pending request ends with a
\* line taken from the pipe, that line carries the request's id and is no
\* event, and every reply the handlers keep carries the id of its request.
C1_OnlyMatchingReplyReturned ==
    /\ [][(pc \in ReqPcs /\ pc' # pc /\ inbox # <<>> /\ inbox' = Tail(inbox))
            => /\ Head(inbox).json
               /\ Head(inbox).request_id = Some(RequestId(pc))
               /\ Head(inbox).event = None]_vars
    /\ [](/\ loc.sub_start # None => Unwrap(loc.sub_start).request_id = Some(ReqSubStart)
          /\ loc.duration # None => Unwrap(loc.duration).request_id = Some(ReqDuration)
          /\ loc.path # None => Unwrap(loc.path).request_id = Some(ReqPath)
          /\ loc.track_list # None => Unwrap(loc.track_list).request_id = Some(ReqTrackList))

\* C1 witness: the track-list request skipped at least one other line and
\* then returned its own reply.
C1_SkippedThenReturned ==
    /\ pc = "cut"
    /\ loc.skipped
    /\ loc.track_list # None
    /\ loc.duration # None
    /\ loc.path # None

\* C2: no well-formed line read while a request is pending is lost: once
\* the loop is back at its read with nothing buffered and mpv still
\* connected, every trigger mpv has emitted has had its handler entered.
C2_NoTriggerLost ==
    (pc = "read" /\ inbox = <<>> /\ ~eof) => n_handled = n_triggers

\* Every field value of p that is set is the value q has.
Carries(q, p) ==
    /\ p.latency_ms # 0 => q.latency_ms = p.latency_ms
    /\ p.rms # 0 => q.rms = p.rms
    /\ p.peak # 0 => q.peak = p.peak
    /\ p.latest_mic_path # None => q.latest_mic_path = p.latest_mic_path
    /\ p.mic_out_path # None => q.mic_out_path = p.mic_out_path

\* C3: within one trigger cycle the later of two delivered snapshots
\* carries every field value (latency, rms, peak, mic paths) the earlier one
\* carried, whichever of the analysis and the mic thread published first.
C3_FieldsOnlyAdded ==
    \A i, j \in DOMAIN delivered :
       (i < j /\ delivered[i].cycle = delivered[j].cycle)
          => Carries(delivered[j], delivered[i])

\* C4: the mailbox holds at most one undelivered snapshot, it is the
\* newest one published, and a snapshot replaced before the consumer took it
\* is never delivered.
C4_OneSlotNewestWins ==
    /\ Len(shared) <= 1
    /\ shared # None => Unwrap(shared).pubno = pubCount
    /\ \A i \in DOMAIN delivered : delivered[i].pubno \notin overwritten

\* C4 witness: A, then B, were published before any consume; the consumer
\* got B.
C4_SecondOfTwoDelivered ==
    /\ pubCount = 2
    /\ overwritten = {1}
    /\ DeliveredNos = {2}

\* C5 as stated: two payloads published with no consume in between, both
\* publishers past their send_event, leave exactly one wake-up for the
\* event loop.
C5_OneWakeForTwoPublishes ==
    (Len(unconsumed) = 2 /\ \A k \in Range(unconsumed) : ~NotifyPending(k))
       => Cardinality({ i \in DOMAIN wakes : wakes[i] \in Range(unconsumed) }) = 1

\* C5 amended: every publish sends exactly one wake-up of its own: for
\* each payload published since the last consume there is one queued
\* wake-up once its publisher is past send_event and none before; A then B
\* published before any consume leave two.
C5_OneWakePerPublish ==
    \A k \in Range(unconsumed) : WakesFor(k) = IF NotifyPending(k) THEN 0 ELSE 1

\* C5 witness: A and B published before any consume, both wake-ups queued.
C5_TwoPublishesTwoWakes ==
    /\ Len(unconsumed) = 2
    /\ \A k \in Range(unconsumed) : ~NotifyPending(k) /\ WakesFor(k) = 1

\* C6: once publishing stops the most recently published snapshot is
\* eventually delivered (every stored payload is eventually delivered unless
\* a newer one is stored), and no payload is delivered twice.
C6_FreshestEventuallyDelivered ==
    /\ \A k \in 1..(2 * MaxTriggers) :
         (pubCount = k) ~> (pubCount > k \/ k \in DeliveredNos)
    /\ [](\A i, j \in DOMAIN delivered : delivered[i].pubno = delivered[j].pubno => i = j)

\* C6 witness: two publishes interleaved with wake-ups, both delivered, the
\* last one last, every wake-up handled.
C6_AllHandledFreshestLast ==
    /\ pubCount = 2
    /\ Len(delivered) = 2
    /\ delivered[2].pubno = 2
    /\ wakes = <<>>
    /\ shared = None

\* The files a retention pass p may remove according to the contract:
\* not excluded and not "latest"-named.
Eligible(p, dir) ==
    SelectSeq(dir, LAMBDA f : f \notin p.exclude /\ f.kind \notin {"latest", "latest_mic"})

\* The n most recently modified files of dir.
Newest(dir, n) == SubSeq(dir, Len(dir) - n + 1, Len(dir))

\* C7: a retention pass with keep = N over M > N eligible files (not
\* excluded, not "latest"-named) leaves exactly the N most recently modified
\* eligible files.
C7_KeepsNewestEligible ==
    \A p \in passes :
       Len(Eligible(p, p.before)) > p.keep
          => Eligible(p, p.after) = Newest(Eligible(p, p.before), p.keep)

\* C8: no retention pass removes a path of its exclusion list or a
\* "latest"-named file (latest.wav, latest_mic.wav).
C8_NeverRemovesProtected ==
    \A p \in passes :
       \A f \in Range(p.before) \ Range(p.after) :
          f \notin p.exclude /\ f.kind \notin {"latest", "latest_mic"}

\* C9: the window a trigger uses starts at max(0, start - 0.10) and ends
\* at min(duration, end + 0.10) when duration > 0, else at end + 0.10, for
\* the current line (start, end) and the reported duration.
C9_WindowPaddedAndClamped ==
    (pc \in {"unpause", "analysis", "notify", "osd"} /\ current_line # None)
       => LET cl == Unwrap(current_line)
              duration == UnwrapOr(DataF64(loc.duration), 0)
          IN  /\ loc.s = Max(0, cl.s - PadMs)
              /\ loc.e = IF duration > 0 THEN Min(duration, cl.e + PadMs)
                         ELSE cl.e + PadMs

\* C9 witness: a trigger used a window clamped at both ends.
C9_ClampedBothEnds ==
    /\ pc = "unpause"
    /\ loc.s = 0
    /\ Unwrap(current_line).s > 0
    /\ loc.e = loc.dur
    /\ Unwrap(current_line).e + PadMs > loc.dur

\* C10: every process spawned (encode, record, raw samples) and every seek
\* sent for a trigger was for a window with start < end.
C10_SpawnsOnlyForValidWindow ==
    \A r \in spawn_log : r.w.s < r.w.e

\* C10 witness: a trigger with a valid window sought and spawned the
\* encoders, the recorder and the raw-sample pipe.
C10_AllSpawned ==
    /\ { r.what : r \in spawn_log } = {"seek", "wav", "mic", "pcm"}
    /\ \A r \in spawn_log : r.w.s < r.w.e

\* The trigger handler is running (or the step enters it).
InTriggerHandler ==
    \/ pc = "read" /\ pc' = "get_duration"
    \/ pc \in {"get_duration", "get_path", "get_track_list", "cut"}

\* C11: a trigger received while no subtitle line is known is a no-op:
\* from the step that reads it to the one that leaves the handler, the only
\* commands sent are the property requests (no set_property,
\* observe_property, unobserve_property or show-text), nothing is spawned or
\* published, and the watch threshold, the observation flag and the current
\* line stay as they are; the handler goes straight back to reading.
C11_NoLineNoOp ==
    [][(current_line = None /\ InTriggerHandler)
         => /\ \A i \in DOMAIN Sent : Sent[i].verb = "get_property"
            /\ UNCHANGED <<watch_until, observing_timepos, current_line>>
            /\ UNCHANGED <<spawn_log, pubCount, shared, mics, files>>
            /\ (pc = "cut" /\ pc' # pc) => (pc' = "read" /\ Sent = <<>>)]_vars

\* C11 witness: a trigger was handled to its end with no line known.
C11_HandledWithoutLine ==
    /\ n_handled = 1
    /\ pc = "read"
    /\ current_line = None
    /\ {ReqDuration, ReqPath, ReqTrackList} \subseteq issued
    /\ spawn_log = {}

\* The handler holds a window with start >= end: computed from the current
\* line at the cut, or kept in its locals at the confirmation.
InvalidWindowNow ==
    \/ pc = "cut" /\ current_line # None
        /\ ~(WithWindow(loc).s < WithWindow(loc).e)
    \/ pc = "osd" /\ ~(loc.s < loc.e)

\* C12: a trigger whose window is invalid (start >= end after padding and
\* clamping) changes no playback or watch state, spawns and publishes
\* nothing, and from the window computation on the only command it sends is
\* show-text "no active subtitle", after which it is back at reading.
C12_InvalidWindowOnlyMessage ==
    [][(InvalidWindowNow /\ pc' # pc)
         => /\ UNCHANGED <<watch_until, observing_timepos, current_line>>
            /\ UNCHANGED <<spawn_log, pubCount, shared, mics, files>>
            /\ IF pc = "cut"
               THEN Sent = <<>> /\ pc' = "osd"
               ELSE Sent = <<ShowText("no active subtitle")>> /\ pc' = "read"]_vars

\* C12 witness: a trigger with a known line and an invalid window was
\* handled to its end; the message is on its way to mpv.
C12_InvalidWindowHandled ==
    /\ n_handled = 1
    /\ pc = "read"
    /\ current_line # None
    /\ \E i \in DOMAIN outq : outq[i] = ShowText("no active subtitle")
    /\ spawn_log = {}
    /\ watch_until = None

\* The time-pos registrations as mpv has them and will have them: what the
\* last command mpv processed for slot 101 left, then the commands for the
\* slot still on their way.
ObserveHistory ==
    LET pending == SelectSeq(outq, LAMBDA c :
                       /\ c.verb \in {"observe_property", "unobserve_property"}
                       /\ c.num = Some(SlotTimePos))
    IN  << IF SlotTimePos \in mpv_obs THEN "observe_property" ELSE "unobserve_property" >>
           \o [i \in DOMAIN pending |-> pending[i].verb]

\* C13: the time-pos observation is registered idempotently: two
\* observe_property commands for slot 101 are never sent without an
\* unobserve_property for it between them, and a trigger handled while the
\* observation is held sends no registration and only replaces the
\* threshold.
C13_ObserveIdempotent ==
    /\ [](\A i \in 1..(Len(ObserveHistory) - 1) :
            ~(ObserveHistory[i] = "observe_property"
              /\ ObserveHistory[i + 1] = "observe_property"))
    /\ [][(pc = "cut" /\ pc' = "unpause" /\ observing_timepos)
            => /\ \A i \in DOMAIN Sent : Sent[i].verb # "observe_property"
               /\ observing_timepos'
               /\ watch_until' = Some(Max(loc'.e - WatchLeadMs, 0))]_vars

\* C13 witness: a repeat trigger while Watching replaced the threshold
\* 1.480 by 1.180 and the registration is still the earlier one.
C13_RearmedWhileWatching ==
    /\ pc = "unpause"
    /\ n_handled = 1
    /\ watch_until = Some(1180)
    /\ observing_timepos
    /\ ObserveHistory = <<"observe_property">>

\* The loop body takes a time-pos event off the channel in this step.
LoopTakesTimePos ==
    /\ pc = "read"
    /\ inbox # <<>>
    /\ inbox' = Tail(inbox)
    /\ Head(inbox).json
    /\ Head(inbox).event = Some("property-change")
    /\ Head(inbox).name = Some("time-pos")

\* C14: a time-pos event processed by the loop pauses, unregisters the
\* time-pos observation and clears the threshold exactly when a threshold
\* is armed and the reported position is at or past it; in every other
\* case the step sends nothing and changes no state.  A threshold is never
\* armed without the observation being held.
C14_PauseExactlyAtThreshold ==
    /\ [](IsSome(watch_until) => observing_timepos)
    /\ [][LoopTakesTimePos
            => IF /\ IsSome(watch_until)
                  /\ IsSome(Head(inbox).data_f64)
                  /\ Unwrap(Head(inbox).data_f64) >= Unwrap(watch_until)
               THEN /\ Sent = <<SetPause(TRUE), UnobserveProperty(SlotTimePos)>>
                    /\ watch_until' = None
                    /\ ~observing_timepos'
                    /\ UNCHANGED <<pc, current_line, loc, n_handled, issued>>
                    /\ UNCHANGED <<spawn_log, pubCount, shared, mics, files>>
               ELSE /\ Sent = <<>>
                    /\ UNCHANGED anVars
                    /\ UNCHANGED <<spawn_log, pubCount, shared, mics, files>>]_vars

\* C14 witness: after a take the position reached the threshold and the
\* loop has just paused and unregistered; it is Armed again.
C14_PausedAtWindowEnd ==
    /\ pc = "read"
    /\ n_handled = 1
    /\ spawn_log # {}
    /\ watch_until = None
    /\ ~observing_timepos
    /\ Len(outq) >= 2
    /\ SubSeq(outq, Len(outq) - 1, Len(outq))
         = <<SetPause(TRUE), UnobserveProperty(SlotTimePos)>>

\* The processes of kind k on record for the window of the running handler.
SpawnedFor(k, l) == [what |-> k, w |-> [s |-> l.s, e |-> l.e]] \in spawn_log

\* C15 as stated: the encode and mic processes are spawned only after the
\* unpause, so none is on record while the handler has yet to unpause.
C15_SpawnOnlyAfterUnpause ==
    pc = "unpause" => \A r \in spawn_log : r.what \notin {"wav", "mic"}

\* C15 amended: on a trigger with a valid window the handler pauses, seeks
\* to the start, arms the threshold and registers the observation if none
\* is held, spawns the encode and mic processes (with the readiness wait),
\* and only then unpauses; the raw-sample process alone is spawned after
\* the unpause.
C15_ExtractionOrder ==
    [][/\ (pc = "cut" /\ pc' = "unpause")
            => /\ Sent = <<SetPause(TRUE), SetTimePos(loc'.s)>>
                         \o (IF observing_timepos THEN <<>>
                             ELSE <<ObserveProperty(SlotTimePos, "time-pos")>>)
               /\ watch_until' = Some(Max(loc'.e - WatchLeadMs, 0))
               /\ observing_timepos'
               /\ { r.what : r \in spawn_log' \ spawn_log } \subseteq {"seek", "wav", "mic"}
               /\ [what |-> "wav", w |-> [s |-> loc'.s, e |-> loc'.e]] \in spawn_log'
               /\ loc'.mic_started
                    => [what |-> "mic", w |-> [s |-> loc'.s, e |-> loc'.e]] \in spawn_log'
       /\ (pc = "unpause" /\ pc' # pc)
            => /\ Sent = <<SetPause(FALSE)>>
               /\ SpawnedFor("wav", loc)
               /\ loc.mic_started => SpawnedFor("mic", loc)
               /\ { r.what : r \in spawn_log' \ spawn_log } \subseteq {"pcm"}
               /\ UNCHANGED <<watch_until, observing_timepos, mics, files>>]_vars

\* C15 witness: paused, sought and armed, the encoders and the recorder
\* spawned, the unpause and the raw-sample process still to come.
C15_SpawnedBeforeUnpause ==
    /\ pc = "unpause"
    /\ loc.mic_started
    /\ { r.what : r \in spawn_log } = {"seek", "wav", "mic"}
    /\ watch_until = Some(Max(loc.e - WatchLeadMs, 0))
    /\ observing_timepos
    /\ \A i \in DOMAIN outq : outq[i] # SetPause(FALSE)

\* The ids the client puts on its requests, and the one each property gets.
ReqIds == {ReqSubStart, ReqSubEnd, ReqDuration, ReqPath, ReqTrackList}
PropertyId(name) ==
    CASE name = "sub-start" -> ReqSubStart
      [] name = "sub-end" -> ReqSubEnd
      [] name = "duration" -> ReqDuration
      [] name = "path" -> ReqPath
      [] name = "track-list" -> ReqTrackList

\* Requests with this id not yet answered to the client: the commands mpv
\* has not processed and the replies the client has not read.
InFlight(id, out, in) ==
    Cardinality({ j \in DOMAIN out : out[j].request_id = Some(id) })
    + Cardinality({ j \in DOMAIN in : in[j].json /\ in[j].request_id = Some(id) })

C17_EofEndsOnlyAnalyzer ==
    /\ eof ~> (pc = "exit")
    /\ \A i \in 1..MaxTriggers :
         (pc = "exit" /\ i \in DOMAIN mics /\ mics[i].pc = "recording")
            ~> (/\ i \in DOMAIN mics
                /\ mics[i].pc = "done"
                /\ (mics[i].pubno \in DeliveredNos \/ pubCount > mics[i].pubno))

\* C17 witness: the analyzer thread has exited on end-of-stream while a
\* mic recorder it started is still recording.
C17_ExitedWithMicInFlight ==
    /\ pc = "exit"
    /\ eof
    /\ \E i \in DOMAIN mics : mics[i].pc = "recording"
    /\ shared = None
    /\ wakes = <<>>

\* The whole frames of the data chunk a call was given.
FrameCount(c) == (Len(c.bytes) \div 2) \div Max(c.info.channels, 1)

\* C18: a 16-bit file at 48000 Hz with F frames decoded with target 24000
\* yields exactly floor(F/2) samples at rate 24000, whatever the channel
\* count; a 16-bit file decoded with no target yields exactly F samples at
\* its own rate.
C18_DecodedCounts ==
    calc.op = "wav_ok"
      => /\ (calc.info.sample_rate = 48000 /\ calc.target = Some(24000))
              => (Len(calc.samples) = FrameCount(calc) \div 2 /\ calc.rate = 24000)
         /\ calc.target = None
              => (Len(calc.samples) = FrameCount(calc) /\ calc.rate = calc.info.sample_rate)

\* C18 witness: a stereo file at 48000 Hz with three frames, the last two
\* not silent, decoded with target 24000 to one sample at 24000.
C18_StereoThreeFramesToOne ==
    /\ calc.op = "wav_ok"
    /\ calc.info = [sample_rate |-> 48000, channels |-> 2, bits_per_sample |-> 16]
    /\ calc.target = Some(24000)
    /\ FrameCount(calc) = 3
    /\ Len(calc.samples) = 1
    /\ calc.rate = 24000
    /\ calc.samples[1].num # 0

\* C19: for all-zero input of any length the estimator marks every frame
\* unvoiced, the median is none and voiced_ratio is 0, whatever the
\* voicing threshold, 0 included.
C19_SilenceUnvoiced ==
    (calc.op = "f0_done" /\ \A i \in DOMAIN calc.samples : calc.samples[i] = 0)
      => /\ \A k \in DOMAIN calc.res.voiced_flags : ~calc.res.voiced_flags[k]
         /\ calc.res.median_hz = None
         /\ calc.res.voiced_ratio.num = 0

\* C19 witness: seven zero samples, threshold 0, frames of five with hop
\* one: three frames, each with lags to pick from, none voiced.
C19_ThreeSilentFrames ==
    /\ calc.op = "f0_done"
    /\ calc.samples = <<0, 0, 0, 0, 0, 0, 0>>
    /\ calc.cfg.nsdf_threshold = 0
    /\ calc.cfg.frame_size = 5
    /\ calc.cfg.fmin_hz = 3
    /\ calc.res.voiced_flags = <<FALSE, FALSE, FALSE>>
    /\ calc.res.median_hz = None

\* The handler is about to run the extraction branch.
ExtractionDue ==
    /\ pc = "cut"
    /\ current_line # None
    /\ ShouldExtract(MediaPath(WithWindow(loc)), WithWindow(loc).s, WithWindow(loc).e)

\* C21: in a cycle with a valid window, whatever the encodes, the device
\* resolution, the recorder spawn and the analysis come to, the handler
\* goes through unpause and confirmation to the read of the next line: the
\* unpause is sent by the one step that leaves "unpause", the confirmation
\* by the one step that leaves "osd", neither by any other step, and no
\* step of the branch leads anywhere but on.
C21_CycleCompletesWhateverFails ==
    /\ ExtractionDue ~> (pc = "read")
    /\ (pc = "unpause") ~> (pc = "read")
    /\ [][/\ (\E i \in DOMAIN Sent : Sent[i] = SetPause(FALSE))
              <=> (pc = "unpause" /\ pc' # pc)
          /\ (\E i \in DOMAIN Sent : Sent[i].verb = "show-text")
              <=> (pc = "osd" /\ pc' # pc)
          /\ (ExtractionDue /\ pc' # pc) => pc' = "unpause"
          /\ (pc = "unpause" /\ pc' # pc)
               => (Sent = <<SetPause(FALSE)>> /\ pc' \in {"analysis", "osd"})
          /\ (pc = "analysis" /\ pc' # pc) => (Sent = <<>> /\ pc' \in {"notify", "osd"})
          /\ (pc = "notify" /\ pc' # pc) => (Sent = <<>> /\ pc' = "osd")
          /\ (pc = "osd" /\ pc' # pc)
               => (Sent = <<ShowText(OsdMessage(loc))>> /\ pc' = "read")]_vars

\* C21 witness: a cycle in which both encodes failed, no device resolved or
\* the recorder did not start, and the raw-sample process could not be
\* spawned; unpause and confirmation were sent and the loop reads again.
C21_AllFailedStillConfirmed ==
    /\ pc = "read"
    /\ n_handled = 1
    /\ { r.what : r \in spawn_log } = {"seek", "wav"}
    /\ files = <<>>
    /\ mics = <<>>
    /\ pubCount = 0
    /\ Len(outq) >= 2
    /\ SubSeq(outq, Len(outq) - 1, Len(outq)) = <<SetPause(FALSE), ShowText("cut")>>

\* The snapshots the analysis step of cycle c has published, delivered or
\* still in the mailbox.
AnalysisSnapshotsOf(c) ==
    { d \in Range(delivered) \cup Range(shared) : d.from = "analysis" /\ d.cycle = c }

\* C22: when the analysis times out or reports an error the raw-sample
\* process is killed and reaped and the cycle publishes no analysis
\* snapshot, and the recorder of the same cycle, if one was started, still
\* completes and publishes.
C22_FailedAnalysisKillsAndSkips ==
    /\ [][(pc = "analysis" /\ pc' = "osd")
            => /\ loc'.pcm = "killed"
               /\ loc'.pcm_msg \in { Some(why) : why \in PcmFailures }
               /\ UNCHANGED <<pubCount, shared, wakes, mics>>]_vars
    /\ []((pc = "osd" /\ loc.pcm = "killed") => AnalysisSnapshotsOf(n_handled) = {})
    /\ \A c \in 1..MaxTriggers :
         (pc = "osd" /\ loc.pcm = "killed" /\ loc.mic_started /\ n_handled = c)
            ~> (\E i \in DOMAIN mics :
                  mics[i].cycle = c /\ mics[i].pc = "done" /\ mics[i].pubno > 0)

\* C22 witness: the analysis of the cycle timed out and its process was
\* killed; the recorder of the cycle has completed, its snapshot is the one
\* publish of the cycle and has been delivered.
C22_TimedOutMicDelivered ==
    /\ pc = "osd"
    /\ loc.pcm = "killed"
    /\ loc.pcm_msg = Some("timeout")
    /\ pubCount = 1
    /\ \E i \in DOMAIN mics : mics[i].cycle = n_handled /\ mics[i].pubno = 1
    /\ Len(delivered) = 1
    /\ delivered[1].from = "mic"

\* The reader thread's message for a read of zero bytes.
ZeroBytes == Some("ffmpeg pipe returned 0 bytes")

\* C23 as stated: after a zero-byte read the raw-sample process is not
\* killed.
C23_ZeroBytesNotKilled == loc.pcm_msg = ZeroBytes => loc.pcm # "killed"

\* C23 amended: a zero-byte read is reported as an error by the reader,
\* which kills nothing itself; the caller treats it as any other analysis
\* error: it kills and reaps the raw-sample process, publishes no analysis
\* snapshot and goes on to the confirmation.
C23_ZeroBytesKilledByCaller ==
    loc.pcm_msg = ZeroBytes
      => /\ loc.pcm = "killed"
         /\ pc = "osd"
         /\ AnalysisSnapshotsOf(n_handled) = {}

\* C23 witness: the read returned zero bytes, the process has been killed
\* and the handler is at its confirmation with nothing published.
C23_ZeroBytesThenKilled ==
    /\ loc.pcm_msg = ZeroBytes
    /\ loc.pcm = "killed"
    /\ pc = "osd"
    /\ pubCount = 0

\* The handler is past the device resolution of the running cycle.
PastResolution == pc \in {"unpause", "analysis", "notify", "osd"} /\ loc.s < loc.e

\* C24: the device of a cycle is the one selected at the time of the
\* trigger, else the first listed one, else none; with none no recorder is
\* spawned and no mic snapshot is published for the cycle, and the cycle
\* still unpauses, tries the analysis and shows its confirmation.
C24_DeviceResolution ==
    /\ [][(pc = "cut" /\ pc' = "unpause")
            => /\ loc'.mic_device_sel = mic_selected
               /\ loc'.chosen_dev = IF mic_selected # None THEN mic_selected
                                     ELSE loc'.enumerated
               /\ loc'.enumerated \in FirstDevices
               /\ loc'.mic_started => loc'.chosen_dev # None
               /\ IF loc'.mic_started
                  THEN Len(mics') = Len(mics) + 1
                  ELSE mics' = mics /\ { r.what : r \in spawn_log' \ spawn_log } \subseteq {"seek", "wav"}]_vars
    /\ []((PastResolution /\ loc.chosen_dev = None)
            => /\ \A i \in DOMAIN mics : mics[i].cycle # n_handled
               /\ \A d \in Range(delivered) \cup Range(shared) :
                     ~(d.from = "mic" /\ d.cycle = n_handled))
    /\ [][(PastResolution /\ loc.chosen_dev = None /\ pc' # pc)
            => CASE pc = "unpause" -> Sent = <<SetPause(FALSE)>> /\ pc' \in {"analysis", "osd"}
                 [] pc = "analysis" -> pc' \in {"notify", "osd"}
                 [] pc = "notify" -> pc' = "osd"
                 [] pc = "osd" -> Sent = <<ShowText("cut")>> /\ pc' = "read"]_vars
    /\ (PastResolution /\ loc.chosen_dev = None) ~> (pc = "read")

\* C24 witness: nothing selected and nothing listed; the cycle has
\* unpaused, its analysis has published and been delivered, no recorder
\* exists, and the confirmation is next.
C24_NoDeviceCycleGoesOn ==
    /\ pc = "osd"
    /\ loc.s < loc.e
    /\ loc.mic_device_sel = None
    /\ loc.enumerated = None
    /\ loc.chosen_dev = None
    /\ mics = <<>>
    /\ loc.pcm = "dropped"
    /\ Len(delivered) = 1
    /\ delivered[1].from = "analysis"

\* C25: for every source rate and target other than the pair (48000,
\* 24000), a data chunk with zero samples included, the decoder returns
\* one sample per whole frame (nothing decimated) and reports the source
\* sample rate.
C25_PassThroughAtSourceRate ==
    (calc.op = "wav_ok" /\ ~(calc.info.sample_rate = 48000 /\ calc.target = Some(24000)))
      => /\ Len(calc.samples) = FrameCount(calc)
         /\ calc.rate = calc.info.sample_rate

\* The format chunk and the data chunk in effect: the last of each.
RECURSIVE LastChunk(_, _)
LastChunk(chunks, id) ==
    IF chunks = <<>> THEN None
    ELSE IF chunks[Len(chunks)].id = id THEN Some(chunks[Len(chunks)])
    ELSE LastChunk(SubSeq(chunks, 1, Len(chunks) - 1), id)

FmtOf(buf) == LastChunk(buf.chunks, "fmt ")
DataOf(buf) == LastChunk(buf.chunks, "data")

BadMagic(buf) == ~buf.riff \/ ~buf.wave
MissingChunk(buf) == FmtOf(buf) = None \/ DataOf(buf) = None
ZeroChannels(buf) == FmtOf(buf) # None /\ FmtOf(buf)[1].channels = 0
ChunkPastEnd(buf) == \E k \in DOMAIN buf.chunks : buf.chunks[k].over
PartialFrame(buf) ==
    /\ FmtOf(buf) # None /\ DataOf(buf) # None
    /\ FmtOf(buf)[1].channels > 0
    /\ Len(DataOf(buf)[1].bytes) % (2 * FmtOf(buf)[1].channels) # 0
BadFormat(buf) == FmtOf(buf) # None /\ FmtOf(buf)[1].audio_format # 1
BadDepth(buf) == FmtOf(buf) # None /\ FmtOf(buf)[1].bits_per_sample # 16

\* C26: the decoder returns an error for every file with a bad magic, a
\* missing format or data chunk, a channel count of 0, a chunk declared
\* past the end of the file, a data length that is not a whole number of
\* frames, a format code other than 1 or a bit depth other than 16.
C26_DefectiveFilesFail ==
    calc.op = "file_ok"
      => ~(\/ BadMagic(calc.file) \/ MissingChunk(calc.file) \/ ZeroChannels(calc.file)
           \/ ChunkPastEnd(calc.file) \/ PartialFrame(calc.file)
           \/ BadFormat(calc.file) \/ BadDepth(calc.file))

\* C27: with frame_size >= 3 the estimator never fails, lags at or beyond
\* frame_size - 1 and beyond frame_size included, and the NSDF value of
\* every lag that overlaps the frame in fewer than 2 samples is 0.
C27_SmallOverlapZeroNoFailure ==
    /\ calc.op # "f0_panic"
    /\ calc.op = "f0_peak"
         => \A tau \in DOMAIN calc.nsdf :
              calc.cfg.frame_size - tau < 2 => calc.nsdf[tau].num = 0

\* The loop, or a request made from it, waits for the next inbound line.
WaitsForLine == pc = "read" \/ pc \in ReqPcs

\* C28 as stated: whenever the read loop waits for a line, a threshold is
\* armed if and only if slot 101 is registered in the player.
C28_ArmedIffRegisteredInPlayer ==
    pc = "read" => (IsSome(watch_until) <=> SlotTimePos \in mpv_obs)

\* C28: whenever the loop waits for a line, a threshold is armed if and
\* only if the analyzer holds the time-pos observation, and it holds it if
\* and only if the last registration command for slot 101 it has sent, or
\* failing any the player's state, is an observe_property: the player's
\* registration agrees once it has processed what was sent to it.
C28_ArmedIffObservationHeld ==
    WaitsForLine
      => /\ IsSome(watch_until) <=> observing_timepos
         /\ observing_timepos <=> ObserveHistory[Len(ObserveHistory)] = "observe_property"
         /\ (outq = <<>>) => (IsSome(watch_until) <=> SlotTimePos \in mpv_obs)

\* C28 witness: a trigger armed the watch, a position past the threshold
\* ended it, the player has processed the unobserve_property, and the loop
\* waits again with nothing armed and nothing registered.
C28_DisarmedAndUnregistered ==
    /\ pc = "read"
    /\ n_handled = 1
    /\ spawn_log # {}
    /\ watch_until = None
    /\ ~observing_timepos
    /\ SlotTimePos \notin mpv_obs
    /\ outq = <<>>

\* The seeks the analyzer has sent: those mpv has processed and those
\* still on their way.
SeeksSent ==
    mpv_seeks + Len(SelectSeq(outq, LAMBDA c : c.verb = "set_property" /\ c.name = "time-pos"))

\* C29: the watch a trigger armed is ended only by a position mpv reported
\* after it had processed that trigger's seek: the time-pos line that makes
\* the loop pause, unregister and clear the threshold was written when mpv
\* had processed every seek sent so far, the one of the armed watch (the
\* last) included.
C29_EndedOnlyByLaterPosition ==
    [][(LoopTakesTimePos /\ IsSome(watch_until) /\ watch_until' = None)
         => Head(inbox).after_seeks = SeeksSent]_vars

\* C30: when a trigger is handled while an earlier cycle's recorder runs,
\* what the event loop delivers is never older than what it delivered
\* before (a snapshot of an earlier cycle never follows one of a later
\* cycle), and a mic thread never stores its snapshot over an undelivered
\* snapshot of a later cycle.
C30_NeverBehindLaterCycle ==
    /\ [](\A i, j \in DOMAIN delivered :
            i < j => delivered[i].cycle <= delivered[j].cycle)
    /\ [][(shared # None /\ shared' # None /\ shared' # shared /\ shared'[1].from = "mic")
            => shared[1].cycle <= shared'[1].cycle]_vars

\* C34: the snapshot the analysis step publishes carries the two mic paths
\* exactly when a mic recorder was started in the cycle, however its
\* device was resolved, and carries neither when no device resolved or the
\* recorder could not be spawned.
C34_MicPathsIffRecorderStarted ==
    [][(pc = "analysis" /\ pc' = "notify")
         => /\ shared' # None
            /\ shared'[1].from = "analysis"
            /\ (shared'[1].latest_mic_path # None) <=> loc.mic_started
            /\ (shared'[1].mic_out_path # None) <=> loc.mic_started]_vars

\* The handler about to show its message started the extraction of its
\* window: it sought and spawned the encoders.
ExtractionStarted ==
    [what |-> "seek", w |-> [s |-> loc.s, e |-> loc.e]] \in spawn_log

\* C33: the confirmation that summarizes the window and the track index is
\* sent only by a handler that started the extraction; every other handler
\* that shows a message, one with an unknown media path included, shows
\* "no active subtitle".
C33_CutMessageOnlyAfterExtraction ==
    [][(pc = "osd" /\ pc' = "read")
         => /\ Sent = <<ShowText("cut")>> => ExtractionStarted
            /\ ~ExtractionStarted => Sent = <<ShowText("no active subtitle")>>]_vars

\* The files of one kind in dir, oldest first, and the files a pass removed.
OfKind(dir, kind) == SelectSeq(dir, LAMBDA f : f.kind = kind)
RemovedBy(p) == Range(p.before) \ Range(p.after)

\* The up to n most recently modified files of dir.
NewestUpTo(dir, n) == IF Len(dir) > n THEN Range(Newest(dir, n)) ELSE Range(dir)

\* C32: clip retention and mic retention do not interfere: the pass a
\* trigger schedules for its clips (the one that excludes latest.wav)
\* removes no uniquely named mic take, the pass of a mic thread (the one
\* that excludes latest_mic.wav) removes no uniquely named clip, and every
\* pass leaves the 5 newest unique clips and the 5 newest unique mic takes
\* in the directory.
C32_RetentionsDoNotInterfere ==
    \A p \in passes :
       /\ LatestPath \in p.exclude => \A f \in RemovedBy(p) : f.kind # "mic"
       /\ LatestMicPath \in p.exclude => \A f \in RemovedBy(p) : f.kind # "clip"
       /\ NewestUpTo(OfKind(p.before, "clip"), KeepCount) \subseteq Range(p.after)
       /\ NewestUpTo(OfKind(p.before, "mic"), KeepCount) \subseteq Range(p.after)

\* Recorder j was started after recorder i and has written latest_mic.wav
\* or is still writing it.
LaterRecorderWrites(i, j) ==
    /\ mics[j].cycle > mics[i].cycle
    /\ mics[j].pc = "recording" \/ mics[j].wrote

\* C31: the unique mic file of a cycle is a copy of that cycle's own
\* recording: when a mic thread copies latest_mic.wav to its unique path,
\* no recorder of a later cycle has written the file or is writing it.
C31_CopyOfOwnRecording ==
    [][\A i \in DOMAIN mics :
         (mics[i].pc = "recording" /\ mics'[i].pc = "notify" /\ mics'[i].copied)
           => ~\E j \in DOMAIN mics : LaterRecorderWrites(i, j)]_vars

====
